---- MODULE Spec2Model ----
(***************************************************************************)
(* Game Sprite Creator: the RenderSprites iteration engine and the modal   *)
(* render operator of game_sprite_addon.py, over a small Blender scene.    *)
(*                                                                         *)
(* Representation                                                          *)
(*  - an object pointer is the object's name, or "None";                   *)
(*  - a comma separated string property is the sequence of its comma-free  *)
(*    tokens (what str.split(',') returns; the correspondence is one to    *)
(*    one), each token keeping its letter case;                            *)
(*  - a Python value that may be None is a sequence of length <= 1:        *)
(*    PyNone is <<>>, Some(x) is <<x>>;                                    *)
(*  - positions are one-dimensional integers, z-rotations whole degrees;   *)
(*  - Python's 0-based indices are kept, Get0 reads a sequence 0-based.    *)
(***************************************************************************)
EXTENDS Integers, Sequences, FiniteSets, TLC

\* ------------------------------------------------------------------ bounds
MaxAngles == 2
MaxFrame == 2
\* strip frame numbers are multiples of 1/FrameUnit
FrameUnit == 2
\* Object Ratio is a multiple of 1/RatioUnit, Object Size one of 1/SizeUnit
RatioUnit == 4
SizeUnit == 2
MaxSize == 3
\* the cameras created in one session
MaxCameras == 2
\* the images of a folder that is merged on its own, and their sides
MaxImages == 3
MaxSide == 2

\* --------------------------------------------------------- Python helpers
PyNone == <<>>
Some(x) == <<x>>
IsNone(o) == o = <<>>
Get0(s, i) == s[i + 1]
Range(a, b) == [k \in 1..(IF b > a THEN b - a ELSE 0) |-> a + k - 1]
SeqToSet(s) == {s[k] : k \in 1..Len(s)}
SeqCount(s, x) == Cardinality({k \in 1..Len(s) : s[k] = x})
SeqIndex(s, x) == CHOOSE k \in 1..Len(s) : s[k] = x /\ \A j \in 1..(k - 1) : s[j] # x

\* str.lower() on the tokens that occur in the two list settings
LowerTable ==
  [t \in {"Sheet", "Object", "Track", "Frame", "Camera", "Angle", "H", "V"} |->
     CASE t = "Sheet" -> "sheet" [] t = "Object" -> "object"
       [] t = "Track" -> "track" [] t = "Frame" -> "frame"
       [] t = "Camera" -> "camera" [] t = "Angle" -> "angle"
       [] t = "H" -> "h" [] t = "V" -> "v"]
lower(t) == IF t \in DOMAIN LowerTable THEN LowerTable[t] ELSE t
lower_all(s) == [k \in 1..Len(s) |-> lower(s[k])]

\* ------------------------------------------------------------- the scene
\* bpy.data.objects, in the order the host lists them
bpy_data_objects ==
  <<"Cam1", "Cam1c", "Cam2", "Cam2c", "Glob", "Misc", "M1", "Out",
    "P1", "P2", "Q1", "Q2", "Q3", "Sun">>
Objects == SeqToSet(bpy_data_objects)

obj_parent ==
  [o \in Objects |->
     CASE o = "Cam1c" -> "Cam1" [] o = "Cam2c" -> "Cam2" [] o = "Sun" -> "Glob"
       [] o \in {"P1", "P2"} -> "Out" [] o \in {"Q1", "Q2"} -> "P1"
       [] o = "Q3" -> "P2" [] o = "M1" -> "Q1" [] OTHER -> "None"]

obj_type ==
  [o \in Objects |->
     CASE o \in {"Cam1c", "Cam2c"} -> "CAMERA" [] o = "Sun" -> "LIGHT"
       [] o \in {"M1", "Misc"} -> "MESH" [] OTHER -> "EMPTY"]

\* ------------------------------------------------------------------ state
VARIABLES
  addon_prop,      \* context.scene.addon_properties
  animation_data,  \* per object: is animation data present, and its NLA tracks
  hide_render,     \* per object
  location,        \* per object, local position
  rotation_z,      \* per object, rotation_euler.z in degrees
  scn_camera,      \* scene.camera
  frame_current,   \* scene.frame_current
  filepath,        \* scene.render.filepath, a sequence of path components
  is_dirty,        \* bpy.data.is_dirty
  is_saved,        \* bpy.data.is_saved
  dir_exists,      \* os.path.isdir(string_output_path)
  pil_installed,   \* module flag set at import
  r,               \* the RenderSprites instance (operator attribute r)
  op,              \* the modal operator: state, stop_modal, timer registered
  fs,              \* the folders and files below the output path
  panel,           \* what the two panels showed when they were last drawn
  created,         \* the cameras the Create Camera operators added, in order
  renders,         \* history: every renderer invocation, in order
  log,             \* history: what the last operator step did; finished is the
                   \* value iterate() returned, incremented the levels incr_index
                   \* was called on, wrapped the levels it returned True for
  pre              \* history: the scene as it was before execute()

vars ==
  <<addon_prop, animation_data, hide_render, location, rotation_z, scn_camera,
    frame_current, filepath, is_dirty, is_saved, dir_exists, pil_installed, r, op,
    fs, panel, created, renders, log, pre>>

\* ------------------------------------------------------------- validators
find_children(parent_obj, type) ==
  SelectSeq(bpy_data_objects,
            LAMBDA o : obj_parent[o] = parent_obj /\ (type = "None" \/ obj_type[o] = type))

validate_camera_parent ==
  IF /\ addon_prop.pointer_camera_one = "None"
     /\ addon_prop.pointer_camera_two = "None"
     /\ addon_prop.pointer_camera_three = "None"
     /\ addon_prop.pointer_camera_four = "None"
  THEN <<"* At least one camera parent must be selected">>
  ELSE PyNone

validate_camera_slot_any_child(pointer) ==
  IF pointer # "None"
  THEN IF obj_type[pointer] # "EMPTY" THEN <<"* must be an empty">>
       ELSE IF Len(find_children(pointer, "None")) = 0
            THEN <<"* does not have a child camera">>
            ELSE PyNone
  ELSE PyNone

\* the common body of validate_camera_one .. validate_camera_four
validate_camera_slot(pointer) ==
  IF pointer # "None"
  THEN IF obj_type[pointer] # "EMPTY" THEN <<"* must be an empty">>
       ELSE IF Len(find_children(pointer, "CAMERA")) = 0
            THEN <<"* does not have a child camera">>
            ELSE PyNone
  ELSE PyNone

validate_camera_one == validate_camera_slot(addon_prop.pointer_camera_one)
validate_camera_two == validate_camera_slot(addon_prop.pointer_camera_two)
validate_camera_three == validate_camera_slot(addon_prop.pointer_camera_three)
validate_camera_four == validate_camera_slot(addon_prop.pointer_camera_four)

validate_output_parent_skips_children ==
  LET out == addon_prop.pointer_output_parent
      children == find_children(out, "None")
  IN IF out = "None" THEN <<"* Output parent must be selected">>
     ELSE IF obj_type[out] # "EMPTY" THEN <<"* must be an empty">>
     ELSE IF Len(children) = 0 THEN <<"* has no children">>
     ELSE PyNone

validate_output_parent ==
  LET out == addon_prop.pointer_output_parent
      children == find_children(out, "None")
      bad(child) ==
        /\ addon_prop.enum_sprite_sheet = "SPRITE"
        /\ \/ obj_type[child] # "EMPTY"
           \/ Len(find_children(child, "None")) = 0
  IN IF out = "None" THEN <<"* Output parent must be selected">>
     ELSE IF obj_type[out] # "EMPTY" THEN <<"* must be an empty">>
     ELSE IF Len(children) = 0 THEN <<"* has no children">>
     ELSE SelectSeq(children, bad)

validate_output_path ==
  IF addon_prop.string_output_path = "" THEN <<"* Select File Path">>
  ELSE IF ~dir_exists THEN <<"* Invalid File Path">>
  ELSE PyNone

validate_render ==
  IF ~is_saved THEN <<"* The file has not been saved.">>
  ELSE IF is_dirty THEN <<"* There are unsaved changes">>
  ELSE PyNone

validate_sprite_dropdown ==
  IF ~pil_installed /\ addon_prop.enum_sprite_sheet # "OFF"
  THEN <<"* PIL is not installed, sprite sheets cannot be created.">>
  ELSE PyNone

output_types == <<"angle", "camera", "frame", "object", "sheet", "track">>

validate_output_order_frame_anywhere ==
  LET output_array == lower_all(addon_prop.string_output_order)
      unknown == SelectSeq(output_array, LAMBDA e : e \notin SeqToSet(output_types))
      miscounted == SelectSeq(output_types, LAMBDA t : SeqCount(output_array, t) # 1)
      idx(t) == SeqIndex(output_array, t)
      misplaced ==
        (IF output_array[1] # "sheet" THEN <<"* The first element must be 'sheet'">> ELSE <<>>)
        \o (IF idx("object") < idx("sheet") THEN <<"* 'object' must be after 'sheet'">> ELSE <<>>)
        \o (IF idx("track") < idx("object") THEN <<"* 'track' must be after 'object'">> ELSE <<>>)
  IN IF Len(output_array) < 6 THEN <<"* The following six elements must be in the list">>
     ELSE IF unknown # <<>> THEN unknown \o <<"* Elements must be one of: ...">>
     ELSE IF miscounted # <<>> THEN miscounted
     ELSE misplaced

validate_output_order ==
  LET output_array == lower_all(addon_prop.string_output_order)
      unknown == SelectSeq(output_array, LAMBDA e : e \notin SeqToSet(output_types))
      miscounted == SelectSeq(output_types, LAMBDA t : SeqCount(output_array, t) # 1)
      idx(t) == SeqIndex(output_array, t)
      misplaced ==
        (IF output_array[1] # "sheet" THEN <<"* The first element must be 'sheet'">> ELSE <<>>)
        \o (IF idx("object") < idx("sheet") THEN <<"* 'object' must be after 'sheet'">> ELSE <<>>)
        \o (IF idx("track") < idx("object") THEN <<"* 'track' must be after 'object'">> ELSE <<>>)
        \o (IF idx("frame") < idx("track") THEN <<"* 'frame' must be after 'track'">> ELSE <<>>)
  IN IF Len(output_array) < 6 THEN <<"* The following six elements must be in the list">>
     ELSE IF unknown # <<>> THEN unknown \o <<"* Elements must be one of: ...">>
     ELSE IF miscounted # <<>> THEN miscounted
     ELSE misplaced

orientation_types == <<"-", "h", "v">>

validate_output_orientation ==
  LET output_array == lower_all(addon_prop.string_output_orientation)
      unknown == SelectSeq(output_array, LAMBDA e : e \notin SeqToSet(orientation_types))
  IN IF Len(output_array) < 6 THEN <<"* The string must contain a '-' followed by ...">>
     ELSE IF unknown # <<>> THEN unknown \o <<"* Elements must be one of: -, h, v">>
     ELSE IF output_array[1] # "-" THEN <<"* The first element must be '-'">>
     ELSE PyNone

validate_settings ==
  /\ validate_camera_parent = PyNone
  /\ validate_camera_one = PyNone
  /\ validate_camera_two = PyNone
  /\ validate_camera_three = PyNone
  /\ validate_camera_four = PyNone
  /\ validate_output_parent = PyNone
  /\ validate_output_path = PyNone
  /\ validate_sprite_dropdown = PyNone
  /\ validate_output_order = PyNone
  /\ validate_output_orientation = PyNone

\* ---------------------------------------------------------- RenderSprites
(* The methods of RenderSprites are operators from a world to a world.  A  *)
(* world is the instance r together with the host state the methods touch. *)
(* exc is set when a Python exception is raised; a statement applied to a  *)
(* world with exc set is skipped.  The registers wrap and finished hold    *)
(* the return values of incr_index and iterate.                            *)
World ==
  [r |-> r, animation_data |-> animation_data, hide_render |-> hide_render,
   location |-> location, rotation_z |-> rotation_z, scn_camera |-> scn_camera,
   frame_current |-> frame_current, filepath |-> filepath, fs |-> fs, renders |-> renders,
   last_render |-> log.last_render, merged |-> log.merged, merges |-> log.merges,
   cleanups |-> log.cleanups,
   wrap |-> FALSE, finished |-> FALSE, incremented |-> <<>>, wrapped |-> {}, exc |-> FALSE]

Raise(w) == [w EXCEPT !.exc = TRUE]

\* strip frame numbers are floats; they are kept in units of 1/FrameUnit frame
py_int(h) == IF h >= 0 THEN h \div FrameUnit ELSE -((-h) \div FrameUnit)

NoAction == [kind |-> "static", obj |-> ""]
NlaTracks(o) == [kind |-> "nla", obj |-> o]
\* len(self.tracks) for a track list that is not None
tracks_len(w, t) == IF t.kind = "static" THEN 1 ELSE Len(w.animation_data[t.obj].nla_tracks)

\* the class attributes of RenderSprites
RenderSpritesClass ==
  [angles |-> PyNone, i_current_angle |-> 0, cameras |-> PyNone, i_current_camera |-> 0,
   frames |-> PyNone, i_current_frame |-> 0, sheets |-> PyNone, i_current_sheet |-> 0,
   objects |-> PyNone, i_current_object |-> 0, tracks |-> PyNone, i_current_track |-> 0,
   output_order |-> PyNone, output_orientation |-> PyNone,
   cam_orig_location |-> PyNone, cam_orig_rotation |-> PyNone,
   orig_scene_camera |-> PyNone, global_parent_orig_location |-> PyNone,
   orig_frame |-> PyNone, orig_render_path |-> PyNone, orig_visibility |-> PyNone,
   iterating |-> FALSE]

\* self.objects[self.i_current_object] and self.cameras[self.i_current_camera]
current_object(w) == Get0(w.r.objects[1], w.r.i_current_object)
current_camera(w) == Get0(w.r.cameras[1], w.r.i_current_camera)

\* obj.matrix_world.to_translation(): translations add up along the parents
RECURSIVE matrix_world_translation(_, _)
matrix_world_translation(w, o) ==
  IF obj_parent[o] = "None" THEN w.location[o]
  ELSE w.location[o] + matrix_world_translation(w, obj_parent[o])

\* one pass of the strip loop of update_lists: acc is <<anim_start, anim_end>>
strip_step(strip, acc) ==
  << IF IsNone(acc[1]) \/ strip.frame_start < acc[1][1] * FrameUnit
     THEN Some(py_int(strip.frame_start)) ELSE acc[1],
     IF strip.frame_end > acc[2] * FrameUnit THEN py_int(strip.frame_end) ELSE acc[2] >>

RECURSIVE strip_range(_, _, _)
strip_range(strips, k, acc) ==
  IF k > Len(strips) THEN acc
  ELSE strip_range(strips, k + 1, strip_step(strips[k], acc))

\* self.frames = range(anim_start, anim_end + 1); range(None, n) raises
set_frames(w, range) ==
  IF IsNone(range[1]) THEN Raise(w)
  ELSE [w EXCEPT !.r.frames = Some(Range(range[1][1], range[2] + 1))]

\* the sheet array of update_lists, from the children of the output parent
sheet_array(children, sheet_option) ==
  CASE sheet_option \in {"OFF", "OUTPUT"} -> <<children>>
    [] sheet_option = "SPRITE" ->
         [k \in 1..Len(children) |-> find_children(children[k], "None")]
    [] sheet_option = "OBJECT" ->
         [k \in 1..Len(children) |-> <<children[k]>>]

\* update_lists is only called with reset left False
update_lists(w, level_index) ==
  LET list_type == Get0(w.r.output_order[1], level_index)
  IN CASE list_type = "angle" ->
            [w EXCEPT !.r.angles = Some(Range(0, addon_prop.int_camera_angles))]
       [] list_type = "camera" ->
            [w EXCEPT !.r.cameras =
               Some(SelectSeq(<<addon_prop.pointer_camera_one, addon_prop.pointer_camera_two,
                                addon_prop.pointer_camera_three, addon_prop.pointer_camera_four>>,
                              LAMBDA c : c # "None"))]
       [] list_type = "frame" ->
            IF IsNone(w.r.tracks) \/ tracks_len(w, w.r.tracks[1]) = 0 THEN w
            ELSE IF w.r.tracks[1] = NoAction THEN [w EXCEPT !.r.frames = Some(<<0>>)]
            ELSE IF w.r.i_current_track >= tracks_len(w, w.r.tracks[1]) THEN Raise(w)
            ELSE set_frames(w, strip_range(
                   Get0(w.animation_data[w.r.tracks[1].obj].nla_tracks,
                        w.r.i_current_track).strips, 1, <<PyNone, 0>>))
       [] list_type = "object" ->
            IF IsNone(w.r.sheets) \/ Len(w.r.sheets[1]) = 0 THEN w
            ELSE IF w.r.i_current_sheet >= Len(w.r.sheets[1]) THEN Raise(w)
            ELSE [w EXCEPT !.r.objects = Some(Get0(w.r.sheets[1], w.r.i_current_sheet))]
       [] list_type = "sheet" ->
            [w EXCEPT !.r.sheets =
               Some(sheet_array(find_children(addon_prop.pointer_output_parent, "None"),
                                addon_prop.enum_sprite_sheet))]
       [] list_type = "track" ->
            IF IsNone(w.r.objects) \/ Len(w.r.objects[1]) = 0 THEN w
            ELSE IF w.r.i_current_object >= Len(w.r.objects[1]) THEN Raise(w)
            ELSE IF w.animation_data[current_object(w)].present
                 THEN [w EXCEPT !.r.tracks = Some(NlaTracks(current_object(w)))]
                 ELSE [w EXCEPT !.r.tracks = Some(NoAction)]
       [] OTHER -> w

\* str(n).zfill(3)
zfill3(n) ==
  IF n >= 100 \/ n <= -10 THEN ToString(n)
  ELSE IF n >= 10 THEN "0" \o ToString(n)
  ELSE IF n >= 0 THEN "00" \o ToString(n)
  ELSE "-0" \o ToString(-n)

\* the z-rotation in whole degrees of angle number a: a * (360 / int_camera_angles)
angle_degrees(a) == (a * 360) \div addon_prop.int_camera_angles

\* get_item_string is only called after setup_scene went through, so every
\* list is set and every index is in range
get_item_string(w, level_index) ==
  LET item_type == Get0(w.r.output_order[1], level_index)
  IN CASE item_type = "angle" -> zfill3(angle_degrees(Get0(w.r.angles[1], w.r.i_current_angle)))
       [] item_type = "camera" -> current_camera(w)
       [] item_type = "frame" -> zfill3(Get0(w.r.frames[1], w.r.i_current_frame))
       [] item_type = "object" -> current_object(w)
       [] item_type = "sheet" -> obj_parent[current_object(w)]
       [] item_type = "track" ->
            IF w.r.tracks[1] # NoAction
            THEN Get0(w.animation_data[w.r.tracks[1].obj].nla_tracks, w.r.i_current_track).name
            ELSE "Static"

\* the objects a hide_render loop of setup_scene, reset_scene or
\* prepare_render assigns to: the object and the children find_children returns
hierarchy_without_children(o) == {o}
hierarchy(o) == {o} \cup SeqToSet(find_children(o, "None"))

\* x.hide_render = value for every x of the set
set_hide_render(w, objs, value) ==
  [w EXCEPT !.hide_render = [x \in Objects |-> IF x \in objs THEN value ELSE @[x]]]

hide_hierarchy(w, o, value) == set_hide_render(w, hierarchy(o), value)

\* track.mute = value for every track of object o
mute_all(w, o, value) ==
  [w EXCEPT !.animation_data[o].nla_tracks =
     [k \in 1..Len(@) |-> [@[k] EXCEPT !.mute = value]]]

\* "Hide all objects" of prepare_render
hide_all(w) ==
  [w EXCEPT
     !.r.orig_visibility =
       Some([k \in 1..Len(bpy_data_objects) |->
               <<bpy_data_objects[k], w.hide_render[bpy_data_objects[k]]>>]),
     !.hide_render = [o \in Objects |-> TRUE]]

\* "Unhide global parent hierarchy" of prepare_render
unhide_global(w) ==
  IF addon_prop.pointer_global_parent # "None"
  THEN hide_hierarchy(w, addon_prop.pointer_global_parent, FALSE)
  ELSE w

prepare_render(w) == unhide_global(hide_all(w))

\* the statements of setup_scene, in order; each raises where Python would
setup_object(w) ==
  IF w.exc THEN w
  ELSE IF IsNone(w.r.objects) \/ w.r.i_current_object >= Len(w.r.objects[1]) THEN Raise(w)
  ELSE hide_hierarchy(w, current_object(w), FALSE)

\* self.tracks[self.i_current_track].mute = False
unmute_current(w) ==
  IF IsNone(w.r.tracks) \/ w.r.i_current_track >= tracks_len(w, w.r.tracks[1]) THEN Raise(w)
  ELSE [w EXCEPT
          !.animation_data[w.r.tracks[1].obj].nla_tracks[w.r.i_current_track + 1].mute = FALSE]

setup_tracks(w) ==
  IF w.exc \/ w.r.tracks = Some(NoAction) THEN w
  ELSE IF ~w.animation_data[current_object(w)].present THEN Raise(w)
  ELSE unmute_current(mute_all(w, current_object(w), TRUE))

\* "Show camera hierarchy", "Move Camera to object" and the save of the rotation
show_camera(w, cam, obj_cam) ==
  [hide_hierarchy(w, cam, FALSE) EXCEPT
     !.r.orig_scene_camera = Some(w.scn_camera),
     !.scn_camera = obj_cam,
     !.r.cam_orig_location = Some(matrix_world_translation(w, cam)),
     !.location[cam] = matrix_world_translation(w, current_object(w)),
     !.r.cam_orig_rotation = Some(w.rotation_z[cam])]

\* "Rotate camera"
rotate_camera(w, cam) ==
  IF IsNone(w.r.angles) \/ w.r.i_current_angle >= Len(w.r.angles[1]) THEN Raise(w)
  ELSE [w EXCEPT !.rotation_z[cam] = angle_degrees(Get0(w.r.angles[1], w.r.i_current_angle))]

setup_camera(w) ==
  IF w.exc THEN w
  ELSE IF IsNone(w.r.cameras) \/ w.r.i_current_camera >= Len(w.r.cameras[1]) THEN Raise(w)
  ELSE IF Len(find_children(current_camera(w), "CAMERA")) = 0 THEN Raise(w)
  ELSE rotate_camera(show_camera(w, current_camera(w),
                                 find_children(current_camera(w), "CAMERA")[1]),
                     current_camera(w))

setup_global(w) ==
  IF w.exc \/ addon_prop.pointer_global_parent = "None" THEN w
  ELSE [w EXCEPT
          !.r.global_parent_orig_location =
            Some(matrix_world_translation(w, addon_prop.pointer_global_parent)),
          !.location[addon_prop.pointer_global_parent] =
            matrix_world_translation(w, current_object(w))]

setup_frame(w) ==
  IF w.exc THEN w
  ELSE IF IsNone(w.r.frames) \/ w.r.i_current_frame >= Len(w.r.frames[1])
  THEN Raise([w EXCEPT !.r.orig_frame = Some(w.frame_current)])
  ELSE [w EXCEPT !.r.orig_frame = Some(w.frame_current),
                 !.frame_current = Get0(w.r.frames[1], w.r.i_current_frame)]

setup_scene(w) ==
  setup_frame(setup_global(setup_camera(setup_tracks(setup_object(w)))))

\* --------------------------------------------------------- the output folder
(* The file system below string_output_path: fs.dirs are the folders and   *)
(* fs.files the files, both in the order they were created, which is the   *)
(* order os.listdir lists them in.  A folder path is the sequence of its   *)
(* components, the first being string_output_path itself; a file name is   *)
(* the sequence of the items that "_" joins (no item of the scene has a    *)
(* "_" in it), followed by its extension.  An image is its size, in units  *)
(* of one render, and the renders it shows with their offsets.             *)
file_extension == ".png"

Rendered(c) == [width |-> 1, height |-> 1, cells |-> {[x |-> 0, y |-> 0, render |-> c]}]

\* the folders the renderer creates on the way to a file
RECURSIVE makedirs(_, _, _)
makedirs(dirs, folder, k) ==
  IF k > Len(folder) THEN dirs
  ELSE makedirs(IF SubSeq(folder, 1, k) \in SeqToSet(dirs) THEN dirs
                ELSE Append(dirs, SubSeq(folder, 1, k)),
                folder, k + 1)

\* writing a file replaces the file of that path, or creates it
write_file(files, file) ==
  IF \E k \in 1..Len(files) : files[k].folder = file.folder /\ files[k].name = file.name
                                /\ files[k].ext = file.ext
  THEN [k \in 1..Len(files) |->
          IF files[k].folder = file.folder /\ files[k].name = file.name
             /\ files[k].ext = file.ext
          THEN file ELSE files[k]]
  ELSE Append(files, file)

\* os.listdir(folder_path), split in the sub-folders and the files
listdir_folders(disk, folder_path) ==
  SelectSeq(disk.dirs, LAMBDA d : Len(d) = Len(folder_path) + 1
                                  /\ SubSeq(d, 1, Len(folder_path)) = folder_path)
listdir_files(disk, folder_path) ==
  SelectSeq(disk.files, LAMBDA f : f.folder = folder_path)

\* what the renderer is invoked on: the combination and the camera rig
RenderCall(w) ==
  [sheet |-> w.r.i_current_sheet,
   object |-> current_object(w),
   camera |-> w.r.i_current_camera,
   rig |-> current_camera(w),
   track |-> w.r.i_current_track,
   frame |-> Get0(w.r.frames[1], w.r.i_current_frame),
   angle |-> Get0(w.r.angles[1], w.r.i_current_angle)]

Combination(call) ==
  [sheet |-> call.sheet, object |-> call.object, camera |-> call.camera,
   track |-> call.track, frame |-> call.frame, angle |-> call.angle]

\* output_folder and output_name of render_scene
render_path(w) ==
  [folder |-> <<addon_prop.string_output_path>> \o [k \in 1..5 |-> get_item_string(w, k - 1)],
   name |-> [k \in 1..6 |-> get_item_string(w, k - 1)]]

\* bpy.ops.render.render(write_still=True): the host renders the scene as it is
render(w, call) ==
  [w EXCEPT
     !.renders = Append(@, Combination(call)),
     !.fs = [dirs |-> makedirs(@.dirs, w.filepath.folder, 2),
             files |-> write_file(@.files,
                                  [folder |-> w.filepath.folder, name |-> w.filepath.name,
                                   ext |-> file_extension,
                                   image |-> Rendered(Combination(call))])],
     !.last_render =
       Some([call |-> call, filepath |-> w.filepath, hide_render |-> w.hide_render,
             animation_data |-> w.animation_data, scn_camera |-> w.scn_camera,
             frame_current |-> w.frame_current,
             rig_location |-> w.location[call.rig],
             global_location |->
               IF addon_prop.pointer_global_parent # "None"
               THEN Some(w.location[addon_prop.pointer_global_parent])
               ELSE PyNone,
             rotation_z |-> w.rotation_z[call.rig]])]

\* "Set render path": the path is built before the filepath is saved
set_render_path(w, path) ==
  [w EXCEPT !.r.orig_render_path = Some(w.filepath), !.filepath = path]

\* "Reset render path"
reset_render_path(w) ==
  [w EXCEPT !.filepath = w.r.orig_render_path[1], !.r.orig_render_path = PyNone]

render_scene(w) ==
  IF w.exc THEN w
  ELSE reset_render_path(render(set_render_path(w, render_path(w)), RenderCall(w)))

\* "Unmute all tracks" of reset_scene
reset_tracks(w) ==
  IF w.r.tracks # Some(NoAction) THEN mute_all(w, current_object(w), FALSE) ELSE w

\* scn.camera = self.orig_scene_camera
reset_scene_camera(w) == [w EXCEPT !.scn_camera = w.r.orig_scene_camera[1]]

\* the location half of "Reset camera"; a mathutils.Vector is always truthy
reset_camera_location_skipped(w, cam) == [w EXCEPT !.r.cam_orig_location = PyNone]

reset_camera_location(w, cam) ==
  IF ~IsNone(w.r.cam_orig_location)
  THEN [w EXCEPT !.location[cam] = w.r.cam_orig_location[1], !.r.cam_orig_location = PyNone]
  ELSE w

\* the rotation half of "Reset camera"; a float is truthy when it is not 0.0
reset_camera_rotation(w, cam) ==
  IF ~IsNone(w.r.cam_orig_rotation) /\ w.r.cam_orig_rotation[1] # 0
  THEN [w EXCEPT !.rotation_z[cam] = w.r.cam_orig_rotation[1], !.r.cam_orig_rotation = PyNone]
  ELSE w

\* "Reset global"
reset_global(w) ==
  IF addon_prop.pointer_global_parent # "None"
  THEN [w EXCEPT
          !.location[addon_prop.pointer_global_parent] = w.r.global_parent_orig_location[1],
          !.r.global_parent_orig_location = PyNone]
  ELSE w

\* "Reset frame"; an int is truthy when it is not 0
reset_frame(w) ==
  IF ~IsNone(w.r.orig_frame) /\ w.r.orig_frame[1] # 0
  THEN [w EXCEPT !.frame_current = w.r.orig_frame[1], !.r.orig_frame = PyNone]
  ELSE w

reset_scene(w) ==
  IF w.exc THEN w
  ELSE reset_frame(reset_global(
         reset_camera_rotation(
           reset_camera_location(
             reset_scene_camera(
               hide_hierarchy(reset_tracks(hide_hierarchy(w, current_object(w), TRUE)),
                              current_camera(w), TRUE)),
             current_camera(w)),
           current_camera(w))))

RECURSIVE update_all_lists(_, _)
update_all_lists(w, level_index) ==
  IF w.exc \/ level_index >= Len(w.r.output_order[1]) THEN w
  ELSE update_all_lists(update_lists(w, level_index), level_index + 1)

render_iteration(w) == reset_scene(render_scene(setup_scene(update_all_lists(w, 0))))

\* self.i_current_x += 1; self.i_current_x %= len(self.x); wrap = (it is 0).
\* len(None) and a modulus by 0 raise after the += 1.
incr(w, field, list, n) ==
  IF IsNone(list) \/ n = 0
  THEN [w EXCEPT !.r[field] = @ + 1, !.wrap = FALSE, !.exc = TRUE]
  ELSE [w EXCEPT !.r[field] = (@ + 1) % n, !.wrap = ((w.r[field] + 1) % n = 0)]

list_len(list) == IF IsNone(list) THEN 0 ELSE Len(list[1])

incr_index(w, level_index) ==
  LET index_type == Get0(w.r.output_order[1], level_index)
  IN CASE index_type = "angle" -> incr(w, "i_current_angle", w.r.angles, list_len(w.r.angles))
       [] index_type = "camera" -> incr(w, "i_current_camera", w.r.cameras, list_len(w.r.cameras))
       [] index_type = "frame" -> incr(w, "i_current_frame", w.r.frames, list_len(w.r.frames))
       [] index_type = "object" -> incr(w, "i_current_object", w.r.objects, list_len(w.r.objects))
       [] index_type = "sheet" -> incr(w, "i_current_sheet", w.r.sheets, list_len(w.r.sheets))
       [] index_type = "track" ->
            incr(w, "i_current_track", w.r.tracks,
                 IF IsNone(w.r.tracks) THEN 0 ELSE tracks_len(w, w.r.tracks[1]))
       [] OTHER -> [w EXCEPT !.wrap = FALSE]

\* for o in self.orig_visibility: o[0].hide_render = o[1]
RECURSIVE restore_visibility(_, _, _)
restore_visibility(hide, orig_visibility, k) ==
  IF k > Len(orig_visibility) THEN hide
  ELSE restore_visibility([hide EXCEPT ![orig_visibility[k][1]] = orig_visibility[k][2]],
                          orig_visibility, k + 1)

\* "Show all objects" of cleanup
show_objects_always_shows(w) ==
  [w EXCEPT !.hide_render = [o \in Objects |-> FALSE], !.cleanups = @ + 1]

show_objects(w) ==
  IF ~IsNone(w.r.orig_visibility) /\ Len(w.r.orig_visibility[1]) > 0
  THEN [w EXCEPT !.hide_render = restore_visibility(@, w.r.orig_visibility[1], 1),
                 !.cleanups = @ + 1]
  ELSE [w EXCEPT !.hide_render = [o \in Objects |-> FALSE], !.cleanups = @ + 1]

\* if self.iterating: ...
stop_iterating(w) ==
  IF w.r.iterating THEN reset_scene([w EXCEPT !.r.iterating = FALSE]) ELSE w

cleanup(w) == IF w.exc THEN w ELSE stop_iterating(show_objects(w))

\* sum(...) and max(...) over the widths or the heights of the images
RECURSIVE sum_sizes(_, _, _)
sum_sizes(images, field, k) ==
  IF k > Len(images) THEN 0 ELSE images[k][field] + sum_sizes(images, field, k + 1)

RECURSIVE max_sizes(_, _, _)
max_sizes(images, field, k) ==
  IF k = Len(images) THEN images[k][field]
  ELSE IF images[k][field] >= max_sizes(images, field, k + 1) THEN images[k][field]
  ELSE max_sizes(images, field, k + 1)

paste_at_origin(images, k, offset, direction, cells) ==
  UNION {images[i].cells : i \in k..Len(images)}

\* output_image.paste(img, ...) for the images from the k-th on
RECURSIVE paste(_, _, _, _, _)
paste(images, k, offset, direction, cells) ==
  IF k > Len(images) THEN cells
  ELSE paste(images, k + 1,
             offset + (IF direction = "HORIZONTAL" THEN images[k].width ELSE images[k].height),
             direction,
             cells \cup
               { [x |-> c.x + (IF direction = "HORIZONTAL" THEN offset ELSE 0),
                  y |-> c.y + (IF direction = "VERTICAL" THEN offset ELSE 0),
                  render |-> c.render] : c \in images[k].cells })

output_image_of_first(images, direction) == images[1]

\* the merged image of images that are not empty, direction being
\* 'HORIZONTAL' or 'VERTICAL'
output_image(images, direction) ==
  [width |-> IF direction = "HORIZONTAL" THEN sum_sizes(images, "width", 1)
             ELSE max_sizes(images, "width", 1),
   height |-> IF direction = "HORIZONTAL" THEN max_sizes(images, "height", 1)
              ELSE sum_sizes(images, "height", 1),
   cells |-> paste(images, 1, 0, direction, {})]

\* os.rmdir(folder_path): it fails, and is ignored, when the folder is not empty
rmdir(disk, folder_path) ==
  IF listdir_files(disk, folder_path) = <<>> /\ listdir_folders(disk, folder_path) = <<>>
  THEN [disk EXCEPT !.dirs = SelectSeq(@, LAMBDA d : d # folder_path)]
  ELSE disk

empty_folder_keeps_files(w, folder_path, extension) == w

empty_folder(w, folder_path, extension) ==
  [w EXCEPT !.fs =
     rmdir([@ EXCEPT !.files =
              SelectSeq(@, LAMBDA f : ~(f.folder = folder_path /\ f.ext = extension))],
           folder_path)]

\* save_path: folder_path without its last component; string_output_path
\* ends with the separator, so its last component is empty
save_path(folder_path) ==
  IF Len(folder_path) <= 1 THEN folder_path
  ELSE SubSeq(folder_path, 1, Len(folder_path) - 1)

\* save_name: the name of the first image without its last item
save_name(files) == SubSeq(files[1].name, 1, Len(files[1].name) - 1)

\* the direction read from the output orientation; None for an unknown value
orientation_direction(d) ==
  CASE d = "v" -> "VERTICAL" [] d = "h" -> "HORIZONTAL" [] OTHER -> "None"

\* "Merge images": files are the files of the folder that have the render
\* extension.  zip(*()) of no image raises, Image.new of a size of None too.
merge_folder(w, folder_path, level, direction, files) ==
  IF files = <<>> \/ direction = "None" THEN Raise(w)
  ELSE [w EXCEPT
          !.fs.files =
            write_file(@, [folder |-> save_path(folder_path), name |-> save_name(files),
                           ext |-> file_extension,
                           image |-> output_image([k \in 1..Len(files) |-> files[k].image],
                                                  direction)]),
          !.merges = Append(@, [folder |-> folder_path, level |-> level,
                                direction |-> direction,
                                names |-> [k \in 1..Len(files) |-> files[k].name],
                                shows |-> [k \in 1..Len(files) |->
                                             {c.render : c \in files[k].image.cells}],
                                output |-> [folder |-> save_path(folder_path),
                                            name |-> save_name(files)]])]

\* "Empty the folder of all images"
merge_empty(w, folder_path) ==
  IF w.exc \/ addon_prop.bool_keep_renders THEN w
  ELSE empty_folder(w, folder_path, file_extension)

\* the part of merge_images after the loop through the sub-directories;
\* every caller leaves direction at its default
merge_level_always_horizontal(w, folder_path, level) ==
  IF w.exc THEN w
  ELSE merge_empty(merge_folder(w, folder_path, level, "HORIZONTAL",
                                SelectSeq(listdir_files(w.fs, folder_path),
                                          LAMBDA f : f.ext = file_extension)),
                   folder_path)

merge_level(w, folder_path, level) ==
  IF w.exc THEN w
  ELSE IF level >= Len(w.r.output_orientation[1]) THEN Raise(w)
  ELSE IF Get0(w.r.output_orientation[1], level) = "-" THEN w
  ELSE merge_empty(merge_folder(w, folder_path, level,
                                orientation_direction(Get0(w.r.output_orientation[1], level)),
                                SelectSeq(listdir_files(w.fs, folder_path),
                                          LAMBDA f : f.ext = file_extension)),
                   folder_path)

RECURSIVE merge_images(_, _, _, _)

merge_sub_folders_skipped(w, sub_folders, k, recursive, level) == w

\* the loop through the sub-directories os.listdir returned
RECURSIVE merge_sub_folders(_, _, _, _, _)
merge_sub_folders(w, sub_folders, k, recursive, level) ==
  IF w.exc \/ k > Len(sub_folders) THEN w
  ELSE merge_sub_folders(merge_images(w, sub_folders[k], recursive, level + 1),
                         sub_folders, k + 1, recursive, level)

merge_images(w, folder_path, recursive, level) ==
  IF recursive
  THEN merge_level(merge_sub_folders([w EXCEPT !.merged = @ + 1],
                                     listdir_folders(w.fs, folder_path), 1, recursive, level),
                   folder_path, level)
  ELSE merge_level([w EXCEPT !.merged = @ + 1], folder_path, level)

finish_always_merges(w) ==
  cleanup(merge_images([w EXCEPT !.finished = TRUE],
                       <<addon_prop.string_output_path>>, TRUE, 0))

\* the branch of iterate taken when level 0 wraps
finish(w) ==
  IF addon_prop.enum_sprite_sheet # "OFF"
  THEN cleanup(merge_images([w EXCEPT !.finished = TRUE],
                            <<addon_prop.string_output_path>>, TRUE, 0))
  ELSE cleanup([w EXCEPT !.finished = TRUE])

\* the history of the incr_index call that was just made on w
note_incr(w, level_index) ==
  IF w.exc THEN w
  ELSE [w EXCEPT !.incremented = Append(@, level_index),
                 !.wrapped = IF w.wrap THEN @ \cup {level_index} ELSE @]

\* the index loop of iterate: incr_levels is one pass from level_index down,
\* after_incr what the pass does with the value incr_index returned
RECURSIVE incr_levels(_, _)

after_incr_never_breaks(w, level_index) ==
  IF w.exc THEN w
  ELSE IF level_index = 0 THEN (IF w.wrap THEN finish(w) ELSE w)
  ELSE incr_levels(w, level_index - 1)

after_incr(w, level_index) ==
  IF w.exc \/ ~w.wrap THEN w
  ELSE IF level_index = 0 THEN finish(w)
  ELSE incr_levels(w, level_index - 1)

incr_levels(w, level_index) ==
  IF level_index < 0 THEN w
  ELSE after_incr(note_incr(incr_index(w, level_index), level_index), level_index)

\* the part of iterate after self.render_iteration()
after_render(w) ==
  IF w.exc THEN w
  ELSE incr_levels([w EXCEPT !.r.iterating = FALSE], Len(w.r.output_order[1]) - 1)

iterate(w) == after_render(render_iteration([w EXCEPT !.r.iterating = TRUE]))

RenderSprites_init_prepares_first(w) ==
  IF ~validate_settings THEN Raise(prepare_render(w))
  ELSE prepare_render([w EXCEPT
                         !.r.output_order = Some(addon_prop.string_output_order),
                         !.r.output_orientation = Some(addon_prop.string_output_orientation)])

\* RenderSprites(context); exc stands for ValidationError
RenderSprites_init(w) ==
  IF ~validate_settings THEN Raise(w)
  ELSE prepare_render([w EXCEPT
                         !.r.output_order = Some(addon_prop.string_output_order),
                         !.r.output_orientation = Some(addon_prop.string_output_orientation)])

\* --------------------------------------------------- the settings and scenes
DefaultOrder == <<"sheet", "object", "camera", "track", "angle", "frame">>
DefaultOrientation == <<"-", "v", "h", "v", "v", "h">>

OrderChoices ==
  { DefaultOrder,
    <<"sheet", "object", "track", "frame", "camera", "angle">>,
    <<"sheet", "angle", "camera", "object", "track", "frame">>,
    <<"Sheet", "object", "camera", "track", "angle", "frame">>,
    <<"sheet", "object", "camera", "track", "Angle", "frame">>,
    <<"object", "sheet", "camera", "track", "angle", "frame">>,
    <<"sheet", "object", "track", "frame", "angle">> }

OrientationChoices ==
  { DefaultOrientation,
    <<"-", "h", "v", "h", "h", "v">>,
    <<"-", "v", "H", "v", "v", "h">>,
    <<"-", "v", "-", "v", "v", "h">>,
    <<"-", "v", "h", "v", "v", "h", "h">>,
    <<"v", "v", "h", "v", "v", "h">>,
    <<"-", "v", "h", "v", "v">> }

\* Group Order, Output Orientation and Keep Individual Renders
SettingChoices ==
  { [order |-> o, orientation |-> DefaultOrientation, keep_renders |-> FALSE] :
      o \in OrderChoices }
  \cup { [order |-> o, orientation |-> d, keep_renders |-> TRUE] :
           o \in {DefaultOrder, <<"sheet", "angle", "camera", "object", "track", "frame">>},
           d \in OrientationChoices }
  \cup { [order |-> DefaultOrder, orientation |-> d, keep_renders |-> FALSE] :
           d \in OrientationChoices }

Walk == [name |-> "Walk", mute |-> FALSE,
         strips |-> <<[frame_start |-> 1 * FrameUnit, frame_end |-> MaxFrame * FrameUnit]>>]
Idle == [name |-> "Idle", mute |-> TRUE,
         strips |-> <<[frame_start |-> 0, frame_end |-> 1 * FrameUnit],
                      [frame_start |-> 1 * FrameUnit, frame_end |-> 1 * FrameUnit + 1]>>]
Bare == [name |-> "Bare", mute |-> FALSE, strips |-> <<>>]

NoAnimation == [present |-> FALSE, nla_tracks |-> <<>>]
Animation(tracks) == [present |-> TRUE, nla_tracks |-> tracks]

\* <<animation of the first object parent, animation of the other ones>>
AnimationChoices ==
  { <<NoAnimation, NoAnimation>>,
    <<Animation(<<Walk, Idle>>), NoAnimation>>,
    <<Animation(<<Idle>>), Animation(<<Walk>>)>>,
    <<NoAnimation, Animation(<<>>)>>,
    <<Animation(<<Walk>>), Animation(<<Bare>>)>> }

FirstParents == {"P1", "Q1"}
OtherParents == {"P2", "Q2", "Q3"}

\* the scene before the run: the current frame, the z-rotation of Cam1 and
\* the objects whose hide_render is set
SceneZero == [frame |-> 0, rotation |-> 0, hidden |-> {}]
SceneSet == [frame |-> 3, rotation |-> 90, hidden |-> {"Q2", "Misc", "Sun", "Cam1c"}]

OneCamera == <<"Cam1", "None", "None", "None">>
TwoCameras == <<"Cam1", "None", "Cam2", "None">>
NoCamera == <<"None", "None", "None", "None">>

\* the number of angles, the camera slots, the global parent and the scene
ScenarioChoices ==
  { [angles |-> MaxAngles, cameras |-> TwoCameras, global_parent |-> "Glob", scene |-> SceneZero],
    [angles |-> MaxAngles, cameras |-> OneCamera, global_parent |-> "None", scene |-> SceneSet],
    [angles |-> 1, cameras |-> TwoCameras, global_parent |-> "Glob", scene |-> SceneSet],
    [angles |-> 1, cameras |-> NoCamera, global_parent |-> "None", scene |-> SceneZero] }

OrigLocation ==
  [o \in Objects |->
     CASE o = "P2" -> 2 [] o = "Q1" -> 1 [] o = "Q3" -> 1
       [] o = "Cam1" -> 3 [] o = "Glob" -> 1 [] OTHER -> 0]

OrigFilepath == [folder |-> <<"//">>, name |-> <<"untitled">>]

\* nothing is shown in a panel that was not drawn yet
NoPanel ==
  [drawn |-> {}, camera_one |-> PyNone, camera_two |-> PyNone, camera_three |-> PyNone,
   camera_four |-> PyNone, camera_parent |-> PyNone, output_parent |-> PyNone,
   keep_renders_enabled |-> TRUE, sprite_dropdown |-> PyNone, output_path |-> PyNone,
   output_order |-> PyNone, output_orientation |-> PyNone, render |-> PyNone,
   render_enabled |-> TRUE]

\* the part of the initial state that no choice touches: the scene, and the
\* operator before it is invoked
InitOperator ==
  /\ location = OrigLocation
  /\ scn_camera = "Cam2c"
  /\ filepath = OrigFilepath
  /\ r = RenderSpritesClass
  /\ op = [state |-> "idle", stop_modal |-> FALSE, timer |-> FALSE]
  /\ fs = [dirs |-> <<>>, files |-> <<>>]
  /\ panel = NoPanel
  /\ created = <<>>
  /\ renders = <<>>
  /\ log = [step |-> "init", event |-> "", iterate |-> "none", finished |-> FALSE,
            incremented |-> <<>>, wrapped |-> {}, last_render |-> PyNone,
            merged |-> 0, merges |-> <<>>, cleanups |-> 0]

\* a saved file without changes, an output folder that exists, PIL installed
InitHost ==
  /\ InitOperator
  /\ is_dirty = FALSE
  /\ is_saved = TRUE
  /\ dir_exists = TRUE
  /\ pil_installed = TRUE

Init ==
  /\ InitHost
  /\ \E sc \in ScenarioChoices :
       /\ \E mode \in {"OFF", "OUTPUT", "SPRITE", "OBJECT"}, st \in SettingChoices :
            addon_prop =
              [int_camera_angles |-> sc.angles,
               float_object_ratio |-> RatioUnit, float_object_size |-> SizeUnit,
               pointer_camera_one |-> sc.cameras[1], pointer_camera_two |-> sc.cameras[2],
               pointer_camera_three |-> sc.cameras[3], pointer_camera_four |-> sc.cameras[4],
               pointer_output_parent |-> "Out", pointer_global_parent |-> sc.global_parent,
               bool_keep_renders |-> st.keep_renders, enum_sprite_sheet |-> mode,
               string_output_path |-> "C:\\out\\",
               string_output_order |-> st.order,
               string_output_orientation |-> st.orientation]
       /\ hide_render = [o \in Objects |-> o \in sc.scene.hidden]
       /\ rotation_z = [o \in Objects |->
                          IF o = "Cam1" THEN sc.scene.rotation
                          ELSE IF o = "Cam2" THEN 45 ELSE 0]
       /\ frame_current = sc.scene.frame
  /\ \E a \in AnimationChoices :
       animation_data =
         [o \in Objects |->
            IF o \in FirstParents THEN a[1]
            ELSE IF o \in OtherParents THEN a[2] ELSE NoAnimation]
  /\ pre = [hide_render |-> hide_render, animation_data |-> animation_data,
            location |-> location, rotation_z |-> rotation_z,
            scn_camera |-> scn_camera, frame_current |-> frame_current,
            filepath |-> filepath]

\* ------------------------------------------------- RenderSprites_OT_Operator
\* write a world back to the variables
Commit(w) ==
  /\ r' = w.r
  /\ animation_data' = w.animation_data
  /\ hide_render' = w.hide_render
  /\ location' = w.location
  /\ rotation_z' = w.rotation_z
  /\ scn_camera' = w.scn_camera
  /\ frame_current' = w.frame_current
  /\ filepath' = w.filepath
  /\ fs' = w.fs
  /\ renders' = w.renders

Logged(w, step, event, iter) ==
  log' = [step |-> step, event |-> event, iterate |-> iter, finished |-> w.finished,
          incremented |-> w.incremented, wrapped |-> w.wrapped,
          last_render |-> w.last_render, merged |-> w.merged, merges |-> w.merges,
          cleanups |-> w.cleanups]

\* the rest of execute once RenderSprites(context) returned or raised
executed(w) ==
  /\ Commit(w)
  /\ Logged(w, "execute", "", "none")
  /\ op' = IF w.exc
           THEN [op EXCEPT !.state = "cancelled"]
           ELSE [op EXCEPT !.state = "running", !.timer = TRUE]

execute ==
  /\ op.state = "idle"
  /\ executed(RenderSprites_init(World))
  /\ UNCHANGED <<addon_prop, is_dirty, is_saved, dir_exists, pil_installed, panel, created, pre>>

\* cancel(): the timer is removed and {'CANCELLED'} is returned
cancel(o) == [o EXCEPT !.timer = FALSE, !.state = "cancelled"]

EventTypes == {"TIMER", "ESC", "MOUSEMOVE"}

modal_call_ignores_stop(event, ok) ==
  IF ~ok THEN World
  ELSE IF event = "ESC" \/ is_dirty THEN cleanup(World)
  ELSE IF event = "TIMER" THEN iterate(World)
  ELSE World

\* what modal calls on the RenderSprites instance, ok being validate_settings
modal_call(event, ok) ==
  IF ~ok THEN World
  ELSE IF event = "ESC" \/ is_dirty THEN cleanup(World)
  ELSE IF op.stop_modal THEN World
  ELSE IF event = "TIMER" THEN iterate(World)
  ELSE World

\* what modal does with the operator itself: stop is true on the three
\* branches that return self.cancel(context)
modal_return(event, stop, w) ==
  /\ Commit(w)
  /\ IF stop THEN Logged(w, "modal", event, "none")
     ELSE IF event = "TIMER"
     THEN Logged(w, "modal", event, IF w.exc THEN "raised" ELSE "returned")
     ELSE UNCHANGED log
  /\ op' = IF stop THEN cancel([op EXCEPT !.stop_modal = FALSE])
           ELSE IF event # "TIMER" THEN op
           ELSE IF w.exc THEN [op EXCEPT !.state = "error"]
           ELSE [op EXCEPT !.stop_modal = w.finished]

modal(event) ==
  /\ op.state = "running"
  /\ modal_return(event,
                  ~validate_settings \/ event = "ESC" \/ is_dirty \/ op.stop_modal,
                  modal_call(event, validate_settings))
  /\ UNCHANGED <<addon_prop, is_dirty, is_saved, dir_exists, pil_installed, panel, created, pre>>

\* ------------------------------------------------------------ environment
\* the user changes the file while the operator runs
MarkDirty ==
  /\ op.state = "running"
  /\ ~is_dirty /\ dir_exists
  /\ is_dirty' = TRUE
  /\ UNCHANGED <<addon_prop, animation_data, hide_render, location, rotation_z, scn_camera,
                 frame_current, filepath, is_saved, dir_exists, pil_installed, r, op, fs, panel,
                 created, renders, log, pre>>

\* the output folder is removed while the operator runs
RemoveOutputDir ==
  /\ op.state = "running"
  /\ dir_exists /\ ~is_dirty
  /\ dir_exists' = FALSE
  /\ UNCHANGED <<addon_prop, animation_data, hide_render, location, rotation_z, scn_camera,
                 frame_current, filepath, is_dirty, is_saved, pil_installed, r, op, fs, panel,
                 created, renders, log, pre>>

\* ------------------------------------------------------------- the panels
\* ADDON_PT_SetupPanel.draw: the boxes it shows
SetupPanel_draw ==
  /\ panel' = [panel EXCEPT
                 !.drawn = @ \cup {"setup"},
                 !.camera_one = validate_camera_one,
                 !.camera_two = validate_camera_two,
                 !.camera_three = validate_camera_three,
                 !.camera_four = validate_camera_four,
                 !.camera_parent = validate_camera_parent,
                 !.output_parent = validate_output_parent,
                 !.keep_renders_enabled = (addon_prop.enum_sprite_sheet # "OFF"),
                 !.sprite_dropdown = validate_sprite_dropdown]
  /\ UNCHANGED <<addon_prop, animation_data, hide_render, location, rotation_z, scn_camera,
                 frame_current, filepath, is_dirty, is_saved, dir_exists, pil_installed,
                 r, op, fs, created, renders, log, pre>>

\* ADDON_PT_RenderPanel.draw: the boxes it shows, and whether the render
\* button is enabled
RenderPanel_draw ==
  /\ panel' = [panel EXCEPT
                 !.drawn = @ \cup {"render"},
                 !.output_path = validate_output_path,
                 !.output_order = validate_output_order,
                 !.output_orientation = validate_output_orientation,
                 !.render = validate_render,
                 !.render_enabled = (validate_render = PyNone /\ validate_settings)]
  /\ UNCHANGED <<addon_prop, animation_data, hide_render, location, rotation_z, scn_camera,
                 frame_current, filepath, is_dirty, is_saved, dir_exists, pil_installed,
                 r, op, fs, created, renders, log, pre>>

\* ---- the values the user may have typed or picked before a panel is drawn
DefaultSettings ==
  [int_camera_angles |-> MaxAngles,
   float_object_ratio |-> RatioUnit, float_object_size |-> SizeUnit,
   pointer_camera_one |-> "Cam1", pointer_camera_two |-> "None",
   pointer_camera_three |-> "None", pointer_camera_four |-> "None",
   pointer_output_parent |-> "Out", pointer_global_parent |-> "Glob",
   bool_keep_renders |-> FALSE, enum_sprite_sheet |-> "OFF",
   string_output_path |-> "C:\\out\\",
   string_output_order |-> DefaultOrder,
   string_output_orientation |-> DefaultOrientation]

\* s with its k-th element replaced by t
Replaced(s, k, t) == [i \in 1..Len(s) |-> IF i = k THEN t ELSE s[i]]

\* every order of the six elements
OrderPermutations ==
  {s \in [1..6 -> SeqToSet(output_types)] : \A i, j \in 1..6 : s[i] = s[j] => i = j}
\* the orders that start with 'sheet'
SheetFirst == {s \in OrderPermutations : s[1] = "sheet"}

\* Group Order: every permutation, and the permutations that start with
\* 'sheet' with one element replaced, one appended, or the last one dropped
OrderInputs ==
  \/ \E s \in OrderPermutations :
       addon_prop = [DefaultSettings EXCEPT !.string_output_order = s]
  \/ \E s \in SheetFirst, k \in 1..6,
        t \in SeqToSet(output_types)
                \cup {"Sheet", "Object", "Track", "Frame", "Camera", "Angle", "x"} :
       addon_prop = [DefaultSettings EXCEPT !.string_output_order = Replaced(s, k, t)]
  \/ \E s \in SheetFirst, t \in {"angle", "x"} :
       addon_prop = [DefaultSettings EXCEPT !.string_output_order = Append(s, t)]
  \/ \E s \in SheetFirst :
       addon_prop = [DefaultSettings EXCEPT !.string_output_order = SubSeq(s, 1, 5)]

\* Output Orientation: every list of five or six of '-', 'h', 'v', 'H', and
\* the default with one element more, or with an unknown element
OrientationInputs ==
  \/ \E d \in [1..5 -> {"-", "h", "v", "H"}] :
       addon_prop = [DefaultSettings EXCEPT !.string_output_orientation = d]
  \/ \E d \in [1..6 -> {"-", "h", "v", "H"}] :
       addon_prop = [DefaultSettings EXCEPT !.string_output_orientation = d]
  \/ \E t \in {"-", "h", "x"} :
       addon_prop = [DefaultSettings EXCEPT
                       !.string_output_orientation = Append(DefaultOrientation, t)]
  \/ \E k \in 1..6 :
       addon_prop = [DefaultSettings EXCEPT
                       !.string_output_orientation = Replaced(DefaultOrientation, k, "x")]

\* the four camera slots: unset, a rig, a mesh, an empty without a camera,
\* a camera
CameraInputs ==
  \E c \in [1..4 -> {"None", "Cam1", "Cam2", "Misc", "Glob", "Cam1c"}] :
    addon_prop = [DefaultSettings EXCEPT !.pointer_camera_one = c[1], !.pointer_camera_two = c[2],
                                         !.pointer_camera_three = c[3], !.pointer_camera_four = c[4]]

\* the output parent and the Sprite Sheets dropdown
OutputParentInputs ==
  \E o \in Objects \cup {"None"}, m \in {"OFF", "OUTPUT", "SPRITE", "OBJECT"} :
    addon_prop = [DefaultSettings EXCEPT !.pointer_output_parent = o, !.enum_sprite_sheet = m]

SettingsInputs == OrderInputs \/ OrientationInputs \/ CameraInputs \/ OutputParentInputs

InitSettings ==
  /\ InitHost
  /\ SettingsInputs
  /\ hide_render = [o \in Objects |-> FALSE]
  /\ rotation_z = [o \in Objects |-> 0]
  /\ frame_current = 0
  /\ animation_data = [o \in Objects |-> NoAnimation]
  /\ pre = [hide_render |-> hide_render, animation_data |-> animation_data,
            location |-> location, rotation_z |-> rotation_z,
            scn_camera |-> scn_camera, frame_current |-> frame_current,
            filepath |-> filepath]

NextSettings ==
  \/ SetupPanel_draw
  \/ RenderPanel_draw

SpecSettings == InitSettings /\ [][NextSettings]_vars

\* ---- the render button pressed on any settings, with or without PIL and
\* with or without the output folder
PathInputs ==
  \E p \in {"", "C:\\out\\"}, m \in {"OFF", "OUTPUT", "SPRITE", "OBJECT"} :
    addon_prop = [DefaultSettings EXCEPT !.string_output_path = p, !.enum_sprite_sheet = m]

ListInputs ==
  \E o \in OrderChoices, d \in OrientationChoices :
    addon_prop = [DefaultSettings EXCEPT !.string_output_order = o,
                                         !.string_output_orientation = d]

InitExecute ==
  /\ InitOperator
  /\ is_dirty = FALSE
  /\ is_saved = TRUE
  /\ dir_exists \in BOOLEAN
  /\ pil_installed \in BOOLEAN
  /\ CameraInputs \/ OutputParentInputs \/ PathInputs \/ ListInputs
  /\ hide_render \in {[o \in Objects |-> FALSE], [o \in Objects |-> o \in SceneSet.hidden]}
  /\ rotation_z = [o \in Objects |-> 0]
  /\ frame_current = 0
  /\ animation_data = [o \in Objects |-> NoAnimation]
  /\ pre = [hide_render |-> hide_render, animation_data |-> animation_data,
            location |-> location, rotation_z |-> rotation_z,
            scn_camera |-> scn_camera, frame_current |-> frame_current,
            filepath |-> filepath]

SpecExecute == InitExecute /\ [][execute]_vars

\* ---------------------------------------------- the Create Camera operators
\* a float is the fraction it stands for, in lowest terms; the operators
\* only divide, and the division is kept exact
RECURSIVE Gcd(_, _)
Gcd(a, b) == IF b = 0 THEN a ELSE Gcd(b, a % b)
Abs(a) == IF a < 0 THEN -a ELSE a
Frac(n, d) ==
  [num |-> (IF d < 0 THEN -n ELSE n) \div Gcd(Abs(n), Abs(d)),
   den |-> Abs(d) \div Gcd(Abs(n), Abs(d))]
FracAdd(a, b) == Frac(a.num * b.den + b.num * a.den, a.den * b.den)
FracMul(a, b) == Frac(a.num * b.num, a.den * b.den)
FracDiv(a, b) == Frac(a.num * b.den, a.den * b.num)
FracLess(a, b) == a.num * b.den < b.num * a.den

\* addon_prop.float_object_ratio and addon_prop.float_object_size
float_object_ratio == Frac(addon_prop.float_object_ratio, RatioUnit)
float_object_size == Frac(addon_prop.float_object_size, SizeUnit)

\* an orthographic scale is coef * sqrt(radicand): math.sqrt is not evaluated
math_sqrt(x) == [coef |-> Frac(1, 1), radicand |-> x]
plain(x) == [coef |-> x, radicand |-> Frac(1, 1)]

\* orth_scale_dime of the dimetric camera
orth_scale_dime ==
  math_sqrt(FracAdd(FracMul(float_object_size, float_object_size),
                    FracMul(float_object_size, float_object_size)))

adjust_scale_unadjusted(ortho_scale) == ortho_scale

\* "Adjust the scale based on the required ratio"
adjust_scale(ortho_scale) ==
  IF FracLess(Frac(0, 1), float_object_ratio) /\ FracLess(float_object_ratio, Frac(1, 1))
  THEN [ortho_scale EXCEPT !.coef = FracDiv(@, float_object_ratio)]
  ELSE ortho_scale

\* the host makes the name of a new object unique with a numbered suffix
unique_name(name) ==
  IF \A k \in 1..Len(created) : created[k].name # name THEN name
  ELSE name \o "." \o zfill3(Cardinality({k \in 1..Len(created) : created[k].base_name = name}))

\* the common body of the four execute methods: the camera is added, made
\* the scene camera, named, rotated, made orthographic and scaled
create_camera(name, rotation_euler, ortho_scale) ==
  /\ Len(created) < MaxCameras
  /\ created' = Append(created,
                       [name |-> unique_name(name), base_name |-> name,
                        rotation_euler |-> rotation_euler, type |-> "ORTHO",
                        ortho_scale |-> adjust_scale(ortho_scale)])
  /\ scn_camera' = unique_name(name)
  /\ UNCHANGED <<addon_prop, animation_data, hide_render, location, rotation_z,
                 frame_current, filepath, is_dirty, is_saved, dir_exists, pil_installed,
                 r, op, fs, panel, renders, log, pre>>

CreateTopCamera_execute ==
  create_camera("Camera_TopDown", <<45, 0, 0>>, plain(float_object_size))
CreateDimeCamera_execute ==
  create_camera("Camera_Dimetric", <<60, 0, 45>>, orth_scale_dime)
CreateSideCamera_execute ==
  create_camera("Camera_Side", <<90, 0, 0>>, plain(float_object_size))
CreateBirdCamera_execute ==
  create_camera("Camera_BirdsEye", <<0, 0, 0>>, plain(float_object_size))

\* Object Ratio is a float of 0 to 1, Object Size a float
InitCameras ==
  /\ InitHost
  /\ \E ratio \in 0..RatioUnit, size \in 1..MaxSize :
       addon_prop = [DefaultSettings EXCEPT !.float_object_ratio = ratio,
                                            !.float_object_size = size]
  /\ hide_render = [o \in Objects |-> FALSE]
  /\ rotation_z = [o \in Objects |-> 0]
  /\ frame_current = 0
  /\ animation_data = [o \in Objects |-> NoAnimation]
  /\ pre = [hide_render |-> hide_render, animation_data |-> animation_data,
            location |-> location, rotation_z |-> rotation_z,
            scn_camera |-> scn_camera, frame_current |-> frame_current,
            filepath |-> filepath]

NextCameras ==
  \/ CreateTopCamera_execute
  \/ CreateDimeCamera_execute
  \/ CreateSideCamera_execute
  \/ CreateBirdCamera_execute

SpecCameras == InitCameras /\ [][NextCameras]_vars

\* ------------------------------------------------- a folder merged on its own
\* the folder 'Sheet' of the output path holds images of any sizes, image k
\* showing the mark k in its top left corner
SheetFolder == <<DefaultSettings.string_output_path, "Sheet">>

InitMerge ==
  /\ InitOperator
  /\ is_dirty = FALSE
  /\ is_saved = TRUE
  /\ dir_exists = TRUE
  /\ pil_installed = TRUE
  /\ \E d \in {DefaultOrientation, <<"-", "h", "v", "h", "h", "v">>}, keep \in BOOLEAN :
       addon_prop = [DefaultSettings EXCEPT !.enum_sprite_sheet = "OUTPUT",
                                            !.bool_keep_renders = keep,
                                            !.string_output_orientation = d]
  /\ hide_render = [o \in Objects |-> FALSE]
  /\ rotation_z = [o \in Objects |-> 0]
  /\ frame_current = 0
  /\ animation_data = [o \in Objects |-> NoAnimation]
  /\ pre = [hide_render |-> hide_render, animation_data |-> animation_data,
            location |-> location, rotation_z |-> rotation_z,
            scn_camera |-> scn_camera, frame_current |-> frame_current,
            filepath |-> filepath]

\* the renderer left images in the folder: one to MaxImages files, of any
\* widths and heights
FillFolder ==
  /\ op.state = "running" /\ fs.files = <<>>
  /\ \E n \in 1..MaxImages :
       \E size \in [1..n -> (1..MaxSide) \X (1..MaxSide)] :
         fs' = [dirs |-> <<SheetFolder>>,
                files |-> [k \in 1..n |->
                             [folder |-> SheetFolder, name |-> <<"Sheet", zfill3(k)>>,
                              ext |-> file_extension,
                              image |-> [width |-> size[k][1], height |-> size[k][2],
                                         cells |-> {[x |-> 0, y |-> 0, render |-> k]}]]]]
  /\ UNCHANGED <<addon_prop, animation_data, hide_render, location, rotation_z, scn_camera,
                 frame_current, filepath, is_dirty, is_saved, dir_exists, pil_installed,
                 r, op, panel, created, renders, log, pre>>

\* self.merge_images(folder) at level 1, not recursive
MergeFolder ==
  /\ op.state = "running" /\ fs.files # <<>> /\ log.merged = 0
  /\ Commit(merge_images(World, SheetFolder, FALSE, 1))
  /\ Logged(merge_images(World, SheetFolder, FALSE, 1), "merge", "", "none")
  /\ UNCHANGED <<addon_prop, is_dirty, is_saved, dir_exists, pil_installed, op, panel,
                 created, pre>>

NextMerge ==
  \/ execute
  \/ FillFolder
  \/ MergeFolder

SpecMerge == InitMerge /\ [][NextMerge]_vars

\* ------------------------------------------------- a track of any strips
\* the first object parent has one NLA track of one or two strips that
\* start and end anywhere from -MaxFrame to MaxFrame
InitStrips ==
  /\ InitHost
  /\ addon_prop = [DefaultSettings EXCEPT !.int_camera_angles = 1]
  /\ hide_render = [o \in Objects |-> FALSE]
  /\ rotation_z = [o \in Objects |-> 0]
  /\ frame_current = 0
  /\ \E n \in 1..2 :
       \E strips \in [1..n -> {s \in [frame_start : (-MaxFrame * FrameUnit)..(MaxFrame * FrameUnit),
                                      frame_end : (-MaxFrame * FrameUnit)..(MaxFrame * FrameUnit)] :
                                 s.frame_start <= s.frame_end}] :
         animation_data =
           [o \in Objects |->
              IF o = "P1"
              THEN Animation(<<[name |-> "Walk", mute |-> FALSE, strips |-> strips]>>)
              ELSE NoAnimation]
  /\ pre = [hide_render |-> hide_render, animation_data |-> animation_data,
            location |-> location, rotation_z |-> rotation_z,
            scn_camera |-> scn_camera, frame_current |-> frame_current,
            filepath |-> filepath]

SpecStrips == InitStrips /\ [][execute \/ modal("TIMER")]_vars

Next ==
  \/ execute
  \/ \E event \in EventTypes : modal(event)
  \/ MarkDirty
  \/ RemoveOutputDir

Spec == Init /\ [][Next]_vars

\* ============================================================== properties
\* the last call of iterate() returned, or raised
IterateReturned == log.iterate = "returned"
IterateRaised == log.iterate = "raised"
\* the step is a call of iterate() that returns
IterateReturns == Len(renders') = Len(renders) + 1 /\ log'.iterate = "returned"

Children(p) == {o \in Objects : obj_parent[o] = p}

\* the object parents of the hierarchy the Sprite Sheets setting prescribes
ObjectParents ==
  IF addon_prop.enum_sprite_sheet = "SPRITE"
  THEN UNION {Children(s) : s \in Children(addon_prop.pointer_output_parent)}
  ELSE Children(addon_prop.pointer_output_parent)

\* the sheet an object parent belongs to, as the position of the sheet
SheetOf(o) ==
  LET out == find_children(addon_prop.pointer_output_parent, "None")
  IN CASE addon_prop.enum_sprite_sheet = "SPRITE" -> SeqIndex(out, obj_parent[o]) - 1
       [] addon_prop.enum_sprite_sheet = "OBJECT" -> SeqIndex(out, o) - 1
       [] OTHER -> 0

CameraRigs ==
  {c \in {addon_prop.pointer_camera_one, addon_prop.pointer_camera_two,
          addon_prop.pointer_camera_three, addon_prop.pointer_camera_four} : c # "None"}
CameraSlots ==
  Cardinality({k \in 1..4 :
     <<addon_prop.pointer_camera_one, addon_prop.pointer_camera_two,
       addon_prop.pointer_camera_three, addon_prop.pointer_camera_four>>[k] # "None"})

\* the tracks of an object parent: its NLA tracks, or the one track "Static"
TrackCount(o) ==
  IF pre.animation_data[o].present THEN Len(pre.animation_data[o].nla_tracks) ELSE 1

\* the frames of a track: the whole frames from the first start to the last end
TrackFrames(o, t) ==
  IF ~pre.animation_data[o].present THEN {0}
  ELSE LET strips == pre.animation_data[o].nla_tracks[t + 1].strips
       IN {f \in -4..(MaxFrame + 4) :
             /\ \E k \in 1..Len(strips) : strips[k].frame_start < (f + 1) * FrameUnit
             /\ \E k \in 1..Len(strips) : strips[k].frame_end >= f * FrameUnit}

ExpectedCombinations ==
  {c \in [sheet : 0..2, object : ObjectParents, camera : 0..(CameraSlots - 1),
          track : 0..1, frame : -4..(MaxFrame + 4),
          angle : 0..(addon_prop.int_camera_angles - 1)] :
     /\ c.sheet = SheetOf(c.object)
     /\ c.track < TrackCount(c.object)
     /\ c.frame \in TrackFrames(c.object, c.track)}

RECURSIVE SumOver(_, _)
SumOver(S, f) ==
  IF S = {} THEN 0
  ELSE LET x == CHOOSE x \in S : TRUE IN f[x] + SumOver(S \ {x}, f)

\* sum over the objects of cameras x angles x the frame counts of the tracks
ExpectedTotal ==
  SumOver(ObjectParents,
          [o \in ObjectParents |->
             CameraSlots * addon_prop.int_camera_angles *
             SumOver(0..(TrackCount(o) - 1),
                     [t \in 0..(TrackCount(o) - 1) |-> Cardinality(TrackFrames(o, t))])])

RendersExact ==
  /\ SeqToSet(renders) = ExpectedCombinations
  /\ \A i, j \in 1..Len(renders) : renders[i] = renders[j] => i = j
  /\ Len(renders) = ExpectedTotal

\* C1: for settings that pass validate_settings, calling iterate() until it
\* reports completion is possible (no call raises) and, when completion is
\* reported, the renderer has been invoked exactly once for every combination
\* (sheet, object, camera, track, frame, angle) and for nothing else, the
\* number of calls being the sum over the objects of cameras x angles x frames.
C1_RendersEveryCombinationOnce ==
  /\ ~IterateRaised
  /\ (IterateReturned /\ log.finished) => RendersExact

\* what remains of C1 on the runs that do report completion
C1_CompletedRunsExact == (IterateReturned /\ log.finished) => RendersExact

\* ---- the index of a level and the length of its list, by the level's type
LevelIndex(rr, t) ==
  CASE t = "angle" -> rr.i_current_angle [] t = "camera" -> rr.i_current_camera
    [] t = "frame" -> rr.i_current_frame [] t = "object" -> rr.i_current_object
    [] t = "sheet" -> rr.i_current_sheet [] t = "track" -> rr.i_current_track

LevelLen(rr, t) ==
  CASE t = "angle" -> Len(rr.angles[1]) [] t = "camera" -> Len(rr.cameras[1])
    [] t = "frame" -> Len(rr.frames[1]) [] t = "object" -> Len(rr.objects[1])
    [] t = "sheet" -> Len(rr.sheets[1])
    [] t = "track" -> IF rr.tracks[1] = NoAction THEN 1
                      ELSE Len(animation_data[rr.tracks[1].obj].nla_tracks)

\* one call of iterate() moves the six indices like one tick of an odometer
OdometerStep ==
  LET order == r'.output_order[1]
      n == Len(order)
      old(k) == LevelIndex(r, order[k])
      new(k) == LevelIndex(r', order[k])
      len(k) == LevelLen(r', order[k])
      \* every level inside level k stood on its last item
      carry(k) == \A j \in (k + 1)..n : old(j) + 1 = len(j)
  IN /\ log'.incremented # <<>> /\ log'.incremented[1] = n - 1
     /\ \A k \in 1..n :
          /\ SeqCount(log'.incremented, k - 1) = (IF carry(k) THEN 1 ELSE 0)
          /\ (k - 1 \in log'.wrapped) <=> (carry(k) /\ old(k) + 1 = len(k))
          /\ (k - 1 \in SeqToSet(log'.incremented))
               <=> \A j \in (k + 1)..n : (j - 1) \in log'.wrapped /\ new(j) = 0
          /\ new(k) = IF ~carry(k) THEN old(k)
                      ELSE IF old(k) + 1 = len(k) THEN 0 ELSE old(k) + 1
     /\ log'.finished <=> (0 \in log'.wrapped)

\* C2: the six indices advance like an odometer in output_order: each call of
\* iterate() increments the innermost level; the level at position k is
\* incremented exactly when every level inside it has just wrapped to 0, and
\* at most once per call; the call reports completion exactly when the
\* outermost level wraps.
C2_Odometer == [][IterateReturns => OdometerStep]_vars

\* a call that carried into a middle level without finishing the run
C2_Witness ==
  /\ IterateReturned /\ ~log.finished
  /\ Len(log.incremented) >= 3
  /\ Len(renders) >= 4

\* C3: iterate() returns True while images remain to be rendered and False
\* once rendering has finished (the docstrings of the class and of iterate).
C3_ReturnsTrueWhileUnfinished ==
  IterateReturned => (log.finished <=> Len(renders) < ExpectedTotal)

\* C4: a call of iterate() that returns leaves the scene camera, the render
\* filepath, the location of the camera rig it used and the location of the
\* global parent as they were before the call.
C4_SceneRestored ==
  [][IterateReturns =>
       LET rig == log'.last_render[1].call.rig
           global_parent == addon_prop.pointer_global_parent
       IN /\ scn_camera' = scn_camera
          /\ filepath' = filepath
          /\ location'[rig] = location[rig]
          /\ global_parent # "None" => location'[global_parent] = location[global_parent]]_vars

\* the render of the returned call ran with all four changed
C4_Witness ==
  /\ IterateReturned
  /\ addon_prop.pointer_global_parent # "None"
  /\ LET lr == log.last_render[1]
     IN /\ lr.scn_camera # scn_camera
        /\ lr.filepath # filepath
        /\ lr.rig_location # location[lr.call.rig]
        /\ lr.global_location # Some(location[addon_prop.pointer_global_parent])

\* C5: a call of iterate() that returns leaves the z-rotation of the camera
\* rig it used as it was before the call, whatever the rotation and the angle.
C5_RotationRestored ==
  [][IterateReturns =>
       LET rig == log'.last_render[1].call.rig
       IN rotation_z'[rig] = rotation_z[rig]]_vars

\* C6: a call of iterate() that returns leaves the current frame as it was
\* before the call, whatever the frame.
C6_FrameRestored == [][IterateReturns => frame_current' = frame_current]_vars

\* C7: a call of iterate() that returns leaves the mute flag of every NLA
\* track of the rendered object as it was before the call, and the render
\* itself ran with exactly the current track unmuted.
C7_MuteRestored ==
  [][IterateReturns =>
       LET lr == log'.last_render[1]
           o == lr.call.object
           during == lr.animation_data[o].nla_tracks
       IN /\ animation_data'[o] = animation_data[o]
          /\ \A k \in 1..Len(during) : during[k].mute <=> (k - 1 # lr.call.track)]_vars

\* C8: when iterate() reports completion, cleanup() has run and every object
\* has the hide_render flag it had before the RenderSprites was constructed.
C8_VisibilityRestored ==
  (IterateReturned /\ log.finished) =>
     (log.cleanups = 1 /\ hide_render = pre.hide_render)

\* a completed run over a scene with hidden and with visible objects
C8_Witness ==
  /\ IterateReturned /\ log.finished
  /\ \E o \in Objects : pre.hide_render[o]
  /\ \E o \in ObjectParents : ~pre.hide_render[o]
  /\ Len(renders) >= 2

\* C9: however the modal operator stops after execute() returned
\* RUNNING_MODAL, every object has the hide_render flag it had before.
C9_StoppedOperatorRestores ==
  (op.state = "cancelled" /\ log.step = "modal") => hide_render = pre.hide_render

\* C10: whenever the renderer is invoked for object parent X with camera rig
\* C, then X, C, the global parent and their direct children are shown, and
\* every other object parent with its children and every other camera rig is
\* hidden.
C10_OneGroupAtATime ==
  ~IsNone(log.last_render) =>
     LET lr == log.last_render[1]
         X == lr.call.object
         C == lr.call.rig
         global_parent == addon_prop.pointer_global_parent
         shown == {X, C} \cup Children(X) \cup Children(C)
                  \cup (IF global_parent # "None"
                        THEN {global_parent} \cup Children(global_parent) ELSE {})
         others == ObjectParents \ {X}
         hidden == others \cup UNION {Children(o) : o \in others} \cup (CameraRigs \ {C})
     IN /\ \A o \in shown : ~lr.hide_render[o]
        /\ \A o \in hidden : lr.hide_render[o]

\* a later render of a run, of another object and rig than the first one,
\* in a scene where nothing was hidden before the run
C10_Witness ==
  /\ ~IsNone(log.last_render)
  /\ Len(renders) >= 3
  /\ renders[1].object # log.last_render[1].call.object
  /\ renders[1].camera # log.last_render[1].call.camera
  /\ addon_prop.pointer_global_parent # "None"
  /\ \A o \in Objects : ~pre.hide_render[o]

\* ------------------------------------------------------- the sprite sheets
\* the run has just reported completion
RunCompleted == IterateReturned /\ log.finished

OutputPath == <<addon_prop.string_output_path>>
\* the files lying in the output path itself
FinalSheets == {fs.files[k] : k \in {j \in 1..Len(fs.files) : fs.files[j].folder = OutputPath}}
\* the renders an image shows
RendersIn(image) == {c.render : c \in image.cells}

\* C11: with Sprite Sheets 'OFF', merge_images is never called and every
\* rendered image stays an individual file where the renderer wrote it: the
\* files of the output folder are the renders, one file each, in the order
\* they were rendered.
C11_OffLeavesRenders ==
  addon_prop.enum_sprite_sheet = "OFF" =>
    /\ log.merged = 0 /\ log.merges = <<>>
    /\ Len(fs.files) = Len(renders)
    /\ \A k \in 1..Len(renders) :
         /\ fs.files[k].image = Rendered(renders[k])
         /\ Len(fs.files[k].folder) = 6
    /\ ~IsNone(log.last_render) =>
         /\ fs.files[Len(fs.files)].folder = log.last_render[1].filepath.folder
         /\ fs.files[Len(fs.files)].name = log.last_render[1].filepath.name

\* a completed run with 'OFF' that rendered several objects
C11_Witness ==
  /\ addon_prop.enum_sprite_sheet = "OFF"
  /\ RunCompleted
  /\ Len(fs.files) >= 4
  /\ \E i, j \in 1..Len(renders) : renders[i].object # renders[j].object

\* the renders of the run that show object parent o
RendersOf(objs) == {c \in SeqToSet(renders) : c.object \in objs}

\* C12: with Sprite Sheets 'OBJECT', a completed run leaves one sheet for
\* each object child of the output parent, each showing the renders of its
\* own object and no other.
C12_OneSheetPerObject ==
  (RunCompleted /\ addon_prop.enum_sprite_sheet = "OBJECT") =>
    /\ Cardinality(FinalSheets) = Cardinality(Children(addon_prop.pointer_output_parent))
    /\ \A o \in Children(addon_prop.pointer_output_parent) :
         \E f \in FinalSheets : RendersIn(f.image) = RendersOf({o})

\* C13: a completed run leaves, with 'OUTPUT', exactly one sheet, which
\* shows the renders of all object children of the output parent, and with
\* 'SPRITE' exactly one sheet for each sprite-sheet child of the output
\* parent, which shows the renders of exactly that child's objects.
C13_SheetsFollowHierarchy ==
  RunCompleted =>
    /\ addon_prop.enum_sprite_sheet = "OUTPUT" =>
         /\ Cardinality(FinalSheets) = 1
         /\ \A f \in FinalSheets :
              /\ RendersIn(f.image) = SeqToSet(renders)
              /\ \A o \in Children(addon_prop.pointer_output_parent) : RendersOf({o}) # {}
    /\ addon_prop.enum_sprite_sheet = "SPRITE" =>
         /\ Cardinality(FinalSheets) = Cardinality(Children(addon_prop.pointer_output_parent))
         /\ \A sprite \in Children(addon_prop.pointer_output_parent) :
              \E f \in FinalSheets :
                /\ RendersIn(f.image) = RendersOf(Children(sprite))
                /\ \A o \in Children(sprite) : RendersOf({o}) # {}

\* completed runs of both kinds, over several cameras
C13_Witness ==
  /\ RunCompleted
  /\ addon_prop.enum_sprite_sheet \in {"OUTPUT", "SPRITE"}
  /\ Cardinality(CameraRigs) = 2
  /\ Len(renders) >= 6

\* a completed 'SPRITE' run: two sheets
C13_WitnessSprite ==
  /\ RunCompleted
  /\ addon_prop.enum_sprite_sheet = "SPRITE"
  /\ Cardinality(FinalSheets) = 2

\* the value a render has for the level type t
FieldOf(c, t) ==
  CASE t = "angle" -> c.angle [] t = "camera" -> c.camera [] t = "frame" -> c.frame
    [] t = "object" -> c.object [] t = "sheet" -> c.sheet [] t = "track" -> c.track

\* the merge, one of log.merges, took the images of a folder at depth k that
\* differ only in the item of output_order[k], and nothing else
MergesLevel(m, k) ==
  /\ Len(m.folder) = k + 1
  /\ \A i \in 1..Len(m.names) :
       /\ Len(m.names[i]) = k + 1
       /\ SubSeq(m.names[i], 1, k) = Tail(m.folder)
       /\ Cardinality({FieldOf(c, Get0(addon_prop.string_output_order, k)) : c \in m.shows[i]}) = 1
       /\ \A j \in 1..Len(m.names) :
            i # j => /\ m.names[i][k + 1] # m.names[j][k + 1]
                     /\ \A c \in m.shows[i], d \in m.shows[j] :
                          FieldOf(c, Get0(addon_prop.string_output_order, k))
                            # FieldOf(d, Get0(addon_prop.string_output_order, k))

\* C14: every merge takes the images of one folder at a depth k of 1..5,
\* which differ only in the item of output_order[k], and puts them side by
\* side when output_orientation[k] is 'h' and on top of each other when it
\* is 'v'; the sheets in the output path itself (level 0, '-') are never
\* merged; a completed run has merged at every depth of 1..5.
C14_DirectionFollowsOrientation ==
  /\ \A n \in 1..Len(log.merges) :
       \E k \in 1..5 :
         /\ MergesLevel(log.merges[n], k)
         /\ Get0(addon_prop.string_output_orientation, k) \in {"h", "v"}
         /\ log.merges[n].direction =
              (IF Get0(addon_prop.string_output_orientation, k) = "h"
               THEN "HORIZONTAL" ELSE "VERTICAL")
  /\ (RunCompleted /\ addon_prop.enum_sprite_sheet # "OFF") =>
       \A k \in 1..5 : \E n \in 1..Len(log.merges) : Len(log.merges[n].folder) = k + 1

\* a completed run that merged in both directions, several images at a time
C14_Witness ==
  /\ RunCompleted
  /\ \E n, m \in 1..Len(log.merges) :
       /\ log.merges[n].direction = "HORIZONTAL" /\ Len(log.merges[n].names) >= 2
       /\ log.merges[m].direction = "VERTICAL" /\ Len(log.merges[m].names) >= 2
  /\ addon_prop.string_output_orientation # DefaultOrientation

\* C15: the recursive merge works bottom-up: when a folder is merged, every
\* sub-folder of it has been merged before and the merged image of each is
\* one of the images the folder's merge takes (above the deepest level these
\* are all its images); after a completed run every render is shown by
\* exactly one final sheet, once.
C15_BottomUp ==
  /\ \A n \in 1..Len(log.merges) :
       /\ \A j \in 1..Len(log.merges) :
            log.merges[j].output.folder = log.merges[n].folder =>
              /\ j < n
              /\ \E i \in 1..Len(log.merges[n].names) :
                   /\ log.merges[n].names[i] = log.merges[j].output.name
                   /\ log.merges[n].shows[i] = UNION SeqToSet(log.merges[j].shows)
       /\ \A d \in SeqToSet(fs.dirs) :
            save_path(d) = log.merges[n].folder =>
              \E j \in 1..(n - 1) : log.merges[j].folder = d
       /\ Len(log.merges[n].folder) < 6 =>
            \A i \in 1..Len(log.merges[n].names) :
              \E j \in 1..(n - 1) :
                /\ log.merges[j].output.folder = log.merges[n].folder
                /\ log.merges[j].output.name = log.merges[n].names[i]
  /\ (RunCompleted /\ addon_prop.enum_sprite_sheet # "OFF") =>
       \A c \in SeqToSet(renders) :
         /\ Cardinality({f \in FinalSheets : c \in RendersIn(f.image)}) = 1
         /\ \A f \in FinalSheets : Cardinality({e \in f.image.cells : e.render = c}) <= 1

\* a completed merging run that kept the folders: folders of every depth
\* were merged, some of them with several sub-folders
C15_Witness ==
  /\ RunCompleted
  /\ addon_prop.bool_keep_renders
  /\ \E n \in 1..Len(log.merges) :
       /\ Len(log.merges[n].folder) = 2
       /\ Cardinality({d \in SeqToSet(fs.dirs) : save_path(d) = log.merges[n].folder}) >= 2
  /\ Len(renders) >= 6

\* C16: with Keep Individual Renders on, the merge deletes no render file:
\* every render stays the file the renderer wrote.  With it off, after a
\* completed merging run no file is left in any merged folder, every such
\* folder is removed, and only the final sheets remain, in the output path.
C16_KeepRenders ==
  /\ addon_prop.bool_keep_renders =>
       /\ Len(fs.files) >= Len(renders)
       /\ \A k \in 1..Len(renders) :
            /\ fs.files[k].image = Rendered(renders[k])
            /\ Len(fs.files[k].folder) = 6
  /\ (~addon_prop.bool_keep_renders /\ RunCompleted /\ addon_prop.enum_sprite_sheet # "OFF") =>
       /\ log.merges # <<>>
       /\ \A n \in 1..Len(log.merges) :
            /\ listdir_files(fs, log.merges[n].folder) = <<>>
            /\ log.merges[n].folder \notin SeqToSet(fs.dirs)
       /\ fs.dirs = <<>>
       /\ \A k \in 1..Len(fs.files) : fs.files[k].folder = OutputPath

\* a completed merging run that deleted the renders of several folders
C16_Witness ==
  /\ ~addon_prop.bool_keep_renders
  /\ RunCompleted
  /\ Len(log.merges) >= 8
  /\ FinalSheets # {}

\* a completed merging run that kept them
C16_WitnessKept ==
  /\ addon_prop.bool_keep_renders
  /\ RunCompleted
  /\ Len(log.merges) >= 8
  /\ Len(fs.files) > Len(renders)

\* ------------------------------------------------------------ the settings
\* the value is the six elements, each once, 'sheet' first, 'object' after
\* 'sheet', 'track' after 'object' and 'frame' after 'track'
SixElementsInOrder(s) ==
  /\ Len(s) = 6
  /\ \A t \in SeqToSet(output_types) : \E k \in 1..6 : s[k] = t
  /\ s[1] = "sheet"
  /\ \A i, j, k \in 2..6 : (s[i] = "object" /\ s[j] = "track" /\ s[k] = "frame") => (i < j /\ j < k)

\* C17 as stated: validate_output_order accepts exactly the values that
\* consist of the six elements angle, camera, frame, object, sheet, track,
\* each once, in an order that obeys the three rules.
C17_AcceptsExactlyTheSix ==
  "render" \in panel.drawn =>
    (panel.output_order = PyNone <=> SixElementsInOrder(addon_prop.string_output_order))

\* C17 amended: validate_output_order accepts exactly the values that
\* consist of the six elements in such an order once every element is put
\* in lower case.
C17_AcceptsIgnoringCase ==
  "render" \in panel.drawn =>
    (panel.output_order = PyNone
       <=> SixElementsInOrder(lower_all(addon_prop.string_output_order)))

\* an accepted value that is not in lower case, and a refused permutation
C17_Witness ==
  /\ "render" \in panel.drawn
  /\ panel.output_order = PyNone
  /\ addon_prop.string_output_order # lower_all(addon_prop.string_output_order)

\* six values, the first '-', each of the other five 'h' or 'v'
SixOrientations(s) ==
  /\ Len(s) = 6
  /\ s[1] = "-"
  /\ \A k \in 2..6 : s[k] \in {"h", "v"}

\* C18: validate_output_orientation accepts exactly the values that have
\* six elements, of which the first is '-', the only '-', and the other five
\* are 'h' or 'v' (letter case left aside, as the validator does).
C18_AcceptsExactlySixValues ==
  "render" \in panel.drawn =>
    (panel.output_orientation = PyNone
       <=> SixOrientations(lower_all(addon_prop.string_output_orientation)))

\* the four camera parent slots and the errors shown for them
CameraSlotValues ==
  <<addon_prop.pointer_camera_one, addon_prop.pointer_camera_two,
    addon_prop.pointer_camera_three, addon_prop.pointer_camera_four>>
CameraSlotErrors ==
  <<panel.camera_one, panel.camera_two, panel.camera_three, panel.camera_four>>

\* C19: the camera validators all return None exactly when at least one of
\* the four slots is set and every slot that is set is an EMPTY with at
\* least one direct child of type CAMERA; the validator of a slot that is
\* not set returns None.
C19_CameraValidators ==
  "setup" \in panel.drawn =>
    /\ (panel.camera_parent = PyNone /\ \A k \in 1..4 : CameraSlotErrors[k] = PyNone)
         <=> /\ \E k \in 1..4 : CameraSlotValues[k] # "None"
             /\ \A k \in 1..4 :
                  CameraSlotValues[k] # "None" =>
                    /\ obj_type[CameraSlotValues[k]] = "EMPTY"
                    /\ \E o \in Objects :
                         obj_parent[o] = CameraSlotValues[k] /\ obj_type[o] = "CAMERA"
    /\ \A k \in 1..4 : CameraSlotValues[k] = "None" => CameraSlotErrors[k] = PyNone

\* the validators pass with two slots set and two not set
C19_Witness ==
  /\ "setup" \in panel.drawn
  /\ panel.camera_parent = PyNone /\ \A k \in 1..4 : CameraSlotErrors[k] = PyNone
  /\ Cardinality({k \in 1..4 : CameraSlotValues[k] = "None"}) = 2
  /\ CameraSlotValues[1] = "None"

\* RenderSprites.sheets after update_lists ran for the sheet level
SheetsAfterUpdate ==
  update_lists([World EXCEPT !.r.output_order = Some(DefaultOrder)], 0).r.sheets

\* C20: validate_output_parent returns None exactly when an output parent
\* is selected, is an EMPTY, has a child and, with Sprite Sheets 'SPRITE',
\* every child of it is an EMPTY with a child of its own; and then every
\* sheet that update_lists builds has at least one object.
C20_OutputParentValidator ==
  "setup" \in panel.drawn =>
    /\ panel.output_parent = PyNone
         <=> /\ addon_prop.pointer_output_parent # "None"
             /\ obj_type[addon_prop.pointer_output_parent] = "EMPTY"
             /\ Children(addon_prop.pointer_output_parent) # {}
             /\ addon_prop.enum_sprite_sheet = "SPRITE" =>
                  \A c \in Children(addon_prop.pointer_output_parent) :
                    obj_type[c] = "EMPTY" /\ Children(c) # {}
    /\ panel.output_parent = PyNone =>
         /\ ~IsNone(SheetsAfterUpdate)
         /\ Len(SheetsAfterUpdate[1]) >= 1
         /\ \A k \in 1..Len(SheetsAfterUpdate[1]) : Len(SheetsAfterUpdate[1][k]) >= 1

\* an accepted sprite-sheet hierarchy of two sheets
C20_Witness ==
  /\ "setup" \in panel.drawn
  /\ panel.output_parent = PyNone
  /\ addon_prop.enum_sprite_sheet = "SPRITE"
  /\ Len(SheetsAfterUpdate[1]) = 2

\* ------------------------------------------------------ the validation gate
\* the ten validators validate_settings asks
SettingValidators ==
  <<validate_camera_parent, validate_camera_one, validate_camera_two, validate_camera_three,
    validate_camera_four, validate_output_parent, validate_output_path,
    validate_sprite_dropdown, validate_output_order, validate_output_orientation>>

\* the step is a call of execute()
ExecuteStep == op.state = "idle" /\ op'.state # "idle"

\* C21: validate_settings returns True exactly when all ten setting
\* validators return None; when it returns False, RenderSprites(context)
\* raises before anything of the scene or of the instance is changed (no
\* hide_render flag is modified) and execute() returns CANCELLED with no
\* timer registered; when it returns True, execute() registers the timer
\* and runs modal.
C21_ValidationGate ==
  [][ExecuteStep =>
       /\ validate_settings <=> \A k \in 1..10 : SettingValidators[k] = PyNone
       /\ ~validate_settings =>
            /\ op'.state = "cancelled" /\ ~op'.timer
            /\ UNCHANGED <<hide_render, animation_data, location, rotation_z, scn_camera,
                           frame_current, filepath, fs, renders, r>>
       /\ validate_settings => (op'.state = "running" /\ op'.timer)]_vars

\* execute() returned CANCELLED on settings of which only the output path
\* is refused, in a scene that has shown and hidden objects
C21_Witness ==
  /\ op.state = "cancelled" /\ log.step = "execute"
  /\ Cardinality({k \in 1..10 : SettingValidators[k] # PyNone}) = 1
  /\ validate_output_path # PyNone
  /\ \E o, p \in Objects : hide_render[o] /\ ~hide_render[p]

\* --------------------------------------------------- objects without tracks
\* the object parent had no animation data before the run
NoAnimationData(o) == ~pre.animation_data[o].present
\* it had no animation tracks: no animation data, or an empty track list
NoTracks(o) == NoAnimationData(o) \/ pre.animation_data[o].nla_tracks = <<>>

\* the settings on which no other step of the run raises: the lists in
\* lower case, the orientation '-' followed by five of 'h' and 'v'
PlainLists ==
  /\ addon_prop.string_output_order = lower_all(addon_prop.string_output_order)
  /\ SixOrientations(addon_prop.string_output_orientation)

\* the last call of iterate() raised while it was at object parent o
RaisedAt(o) ==
  /\ IterateRaised
  /\ ~IsNone(r.objects) /\ r.i_current_object < Len(r.objects[1])
  /\ Get0(r.objects[1], r.i_current_object) = o

\* what the claim says of the object parents that satisfy no_tracks
StaticFrameOnly(no_tracks(_)) ==
  \A o \in {p \in ObjectParents : no_tracks(p)} :
    /\ \A c \in RendersOf({o}) : c.frame = 0 /\ c.track = 0
    /\ (~IsNone(log.last_render) /\ log.last_render[1].call.object = o) =>
         \E k \in 1..6 : log.last_render[1].filepath.name[k] = "Static"
    /\ ~RaisedAt(o)
    /\ RunCompleted =>
         Cardinality(RendersOf({o})) = CameraSlots * addon_prop.int_camera_angles

\* C22: an object parent without animation tracks (no animation data, or
\* animation data with an empty track list) is rendered at the first frame
\* only: one render per camera and angle, frame 0, under the track name
\* 'Static'; no call of iterate() raises at such an object, and a completed
\* run has rendered it once per camera and angle.
C22_NoTracksFirstFrameOnly == PlainLists => StaticFrameOnly(NoTracks)

\* the same of the object parents without animation data only
C22_NoAnimationDataFirstFrameOnly == PlainLists => StaticFrameOnly(NoAnimationData)

\* ------------------------------------------------------- the object ratio
\* the scale of a created camera before the ratio is applied: the object
\* size, and for the dimetric camera the square root of twice its square
BaseScale(camera) ==
  IF camera.base_name = "Camera_Dimetric"
  THEN [coef |-> Frac(1, 1),
        radicand |-> Frac(2 * addon_prop.float_object_size * addon_prop.float_object_size,
                          SizeUnit * SizeUnit)]
  ELSE [coef |-> Frac(addon_prop.float_object_size, SizeUnit), radicand |-> Frac(1, 1)]

\* C23: each of the four camera operators sets the orthographic scale to
\* the base scale when Object Ratio is 0 and when it is 1, and to the base
\* scale divided by the ratio (the scale times the ratio is the base scale)
\* when the ratio is strictly between 0 and 1.
C23_RatioZeroIsOne ==
  \A k \in 1..Len(created) :
    /\ addon_prop.float_object_ratio \in {0, RatioUnit} =>
         created[k].ortho_scale = BaseScale(created[k])
    /\ addon_prop.float_object_ratio \in 1..(RatioUnit - 1) =>
         /\ created[k].ortho_scale.radicand = BaseScale(created[k]).radicand
         /\ created[k].ortho_scale.coef.num * addon_prop.float_object_ratio
              * BaseScale(created[k]).coef.den
            = BaseScale(created[k]).coef.num * RatioUnit * created[k].ortho_scale.coef.den

\* a dimetric and another camera created with ratio 0 and a size that is not 1
C23_Witness ==
  /\ addon_prop.float_object_ratio = 0
  /\ addon_prop.float_object_size # SizeUnit
  /\ Len(created) = 2
  /\ created[1].base_name = "Camera_Dimetric" /\ created[2].base_name # "Camera_Dimetric"

\* two cameras created with a ratio strictly between 0 and 1
C23_WitnessBetween ==
  /\ addon_prop.float_object_ratio \in 1..(RatioUnit - 1)
  /\ Len(created) = 2
  /\ created[1].base_name # created[2].base_name
  /\ created[1].ortho_scale # BaseScale(created[1])

\* ------------------------------------------------------- the merged image
\* the images of the folder before the step, and the image the step saved
MergeInputs == [k \in 1..Len(fs.files) |-> fs.files[k].image]
MergeOutput ==
  (CHOOSE f \in SeqToSet(fs'.files) : f.folder = OutputPath /\ f.name = <<"Sheet">>).image

\* where pasted image k lies in the merged image: its mark
PastedAt(k) == CHOOSE c \in MergeOutput.cells : c.render = k

\* the extent of the images in the direction of the merge, and across it
Along(image, direction) == IF direction = "HORIZONTAL" THEN image.width ELSE image.height
Across(image, direction) == IF direction = "HORIZONTAL" THEN image.height ELSE image.width

MergedAsStated(direction) ==
  LET n == Len(MergeInputs)
      along(k) == Along(MergeInputs[k], direction)
      across(k) == Across(MergeInputs[k], direction)
      before(k) == SumOver(1..(k - 1), [j \in 1..n |-> along(j)])
      at(k) == IF direction = "HORIZONTAL" THEN PastedAt(k).x ELSE PastedAt(k).y
      off(k) == IF direction = "HORIZONTAL" THEN PastedAt(k).y ELSE PastedAt(k).x
  IN /\ Along(MergeOutput, direction) = SumOver(1..n, [j \in 1..n |-> along(j)])
     /\ \E k \in 1..n : Across(MergeOutput, direction) = across(k)
     /\ \A k \in 1..n : Across(MergeOutput, direction) >= across(k)
     /\ \A k \in 1..n :
          /\ Cardinality({c \in MergeOutput.cells : c.render = k}) = 1
          /\ at(k) = before(k) /\ off(k) = 0
          /\ at(k) + along(k) <= Along(MergeOutput, direction)
          /\ off(k) + across(k) <= Across(MergeOutput, direction)
          /\ \A j \in 1..n :
               j # k => (at(j) + along(j) <= at(k) \/ at(k) + along(k) <= at(j))

\* the step merges the folder
MergeStep == log.merged = 0 /\ log'.merged = 1 /\ fs.files # <<>>

\* C24: a horizontal merge makes an image as wide as the sum of the widths
\* and as high as the highest image, image i pasted at the x-offset that is
\* the sum of the widths before it and at y-offset 0; a vertical merge the
\* same with width and height, x and y exchanged; no two pasted images
\* overlap and each lies inside the merged image.
C24_MergeGeometry ==
  [][MergeStep =>
       /\ Len(log'.merges) = 1
       /\ log'.merges[1].direction =
            (IF Get0(addon_prop.string_output_orientation, 1) = "h"
             THEN "HORIZONTAL" ELSE "VERTICAL")
       /\ MergedAsStated(log'.merges[1].direction)]_vars

\* a horizontal merge of three images of different widths and heights
C24_Witness ==
  /\ log.merged = 1 /\ Len(log.merges) = 1
  /\ log.merges[1].direction = "HORIZONTAL"
  /\ Len(log.merges[1].names) = 3
  /\ \E f \in FinalSheets : f.image.width = 4 /\ f.image.height = 2
  /\ addon_prop.bool_keep_renders
  /\ fs.files[1].image.height # fs.files[2].image.height

\* a vertical merge of images of different widths
C24_WitnessVertical ==
  /\ log.merged = 1 /\ Len(log.merges) = 1
  /\ log.merges[1].direction = "VERTICAL"
  /\ Len(log.merges[1].names) >= 2
  /\ \E f \in FinalSheets : f.image.height >= 3 /\ f.image.width = 2

\* ---------------------------------------------------- the frames of a track
\* the strips of the one track of the first object parent
TrackStrips == pre.animation_data["P1"].nla_tracks[1].strips
\* the whole frame of the smallest frame_start and of the largest frame_end
FirstFrame ==
  py_int(CHOOSE a \in {TrackStrips[k].frame_start : k \in 1..Len(TrackStrips)} :
           \A k \in 1..Len(TrackStrips) : a <= TrackStrips[k].frame_start)
LastFrame ==
  py_int(CHOOSE b \in {TrackStrips[k].frame_end : k \in 1..Len(TrackStrips)} :
           \A k \in 1..Len(TrackStrips) : b >= TrackStrips[k].frame_end)

\* C25: for a track with strips the frame list is the consecutive integers
\* from the smallest frame_start to the largest frame_end of its strips,
\* wherever the strips lie, and a completed run has rendered the first
\* object parent at exactly these frames.
C25_FramesSpanStrips ==
  /\ (IterateReturned /\ Len(renders) = 1) =>
       r.frames = Some([k \in 1..(LastFrame - FirstFrame + 1) |-> FirstFrame + k - 1])
  /\ RunCompleted =>
       {c.frame : c \in RendersOf({"P1"})} = FirstFrame..LastFrame

\* the same for the tracks whose last strip does not end before frame 0
C25_FramesSpanStripsFromZero ==
  (\E k \in 1..Len(TrackStrips) : TrackStrips[k].frame_end >= 0) => C25_FramesSpanStrips

\* ------------------------------------------------------ the modal operator
\* the step is the handling of a modal event that ends the operator
ModalStops == op.state = "running" /\ op'.state = "cancelled"
\* the step changes nothing but what the user changes outside the operator
OutsideStep == UNCHANGED <<op, r, renders, log, hide_render, fs>>

\* C26: once iterate() has reported that rendering is finished (stop_modal
\* is set), the next modal event of any type ends the operator: the timer is
\* removed, CANCELLED is returned, iterate() is not called and nothing is
\* rendered; an operator that has ended handles no event any more.
C26_StopsAfterFinished ==
  [][/\ (op.state = "running" /\ op.stop_modal) =>
          \/ OutsideStep
          \/ /\ ModalStops /\ ~op'.timer /\ ~op'.stop_modal
             /\ log'.step = "modal" /\ log'.iterate = "none"
             /\ renders' = renders /\ fs' = fs
             /\ r'.i_current_frame = r.i_current_frame
     /\ op.state = "cancelled" => FALSE]_vars

\* a TIMER event that arrived after the run had finished ended the operator
C26_Witness ==
  /\ op.state = "cancelled" /\ ~op.timer
  /\ log.step = "modal" /\ log.event = "TIMER" /\ log.iterate = "none"
  /\ validate_settings /\ ~is_dirty
  /\ log.cleanups = 1
  /\ Len(renders) >= 4

\* what C27 says of a step
StopsAtBoundary ==
  /\ (ModalStops /\ (log'.event = "ESC" \/ is_dirty)) =>
       /\ log'.cleanups = log.cleanups + 1
       /\ ~op'.timer
       /\ renders' = renders /\ log'.iterate = "none"
       /\ ~r'.iterating
  /\ op.state = "cancelled" => FALSE
  /\ (log' # log /\ log'.iterate # "none") =>
       /\ log'.step = "modal" /\ log'.event = "TIMER"
       /\ Len(renders') <= Len(renders) + 1
       /\ Len(log'.incremented) <= 6

\* C27: a modal event that is ESC, or that arrives while the file is dirty,
\* ends the running operator between two iterations: cleanup() is called,
\* the timer is removed and nothing is rendered afterwards; iterate() is
\* called on TIMER events only, once for each.
C27_EscOrDirtyStops == [][StopsAtBoundary]_vars

\* the same while the settings still pass validate_settings
C27_EscOrDirtyStopsValidSettings == [][validate_settings => StopsAtBoundary]_vars

====
